---------------------------- MODULE Spec2Model ----------------------------
(***************************************************************************)
(* A model of jamsch/renamer: the signal/effect engine (signals.js), the   *)
(* rule chain and the transformation engine (renamer.js).                  *)
(***************************************************************************)
EXTENDS Integers, Sequences, FiniteSets, TLC

(***************************************************************************)
(* Bounds of the model.                                                    *)
(***************************************************************************)
MaxEffects == 2
MaxValue == 1
MaxWrites == 2
MaxChain == 2
MaxNameLen == 3
MaxSearchLen == 2
MaxReplacementLen == 2
MaxRules == 2
MaxLists == 1
MaxFiles == 2
MaxRenames == 1
MaxCount == 10
MaxObjects == 6
MaxRuleObjects == 3
MaxNested == 4

NoTarget == 0
NoProgram == [reads |-> {}, target |-> NoTarget]

Signals == {1, 2}
Effects == 1..MaxEffects
Values == 0..MaxValue

VARIABLES
    \* ---- signals.js ----
    value,           \* value[s]: the value captured by signal s's closure
    subscribers,     \* subscribers[s]: the Set of effects of signal s, in insertion order
    effects,         \* the stack of currently executing effects
    pendingEffects,  \* the Set of scheduled effects, in insertion order
    isFlushing,      \* the flag scheduleEffect tests and flushEffects resets
    microtasks,      \* number of flushEffects callbacks queued with queueMicrotask
    flushIdx,        \* position of the for-of iteration of flushEffects (0: not running)
    program,         \* program[e]: the function given to createEffect, NoProgram before
    \* ---- observation of the engine's runs ----
    runs,            \* runs[e]: executions of e in the current (or last) flush
    owed,            \* effects scheduled, while flushEffects runs, by the write of
                     \* another effect, and not executed since
    turnWrites,      \* turnWrites[e]: value-changing writes to signals e subscribes, made
                     \* by event handlers since the last flush ended
    lastOp,          \* the operation the last step performed
    ran,             \* the effects whose function the last step executed, in order
    \* ---- the transformation engine applied to one file name ----
    pFilename,       \* the file name
    pChain,          \* the values of the signals of each rule of the chain
    pValid,          \* what getRulesFromSignals returned for pChain
    pOut,            \* what applyRulesLocally returned for pFilename and pValid
    pc,              \* "edited": pChain changed since the last preview; "shown"
    \* ---- the renamer: what its signals do not hold ----
    dom,             \* the rows of the rule table and of the file table, the file
                     \* table's currentFilesRef and the text of the preview cells
    alloc,           \* the rule objects, file objects and file lists created and
                     \* the renames started so far
    adding,          \* the calls of addFiles that await the main process
    inflight,        \* the calls of renameFiles that await the main process
    main,            \* the main process: its platform, the rename-files request
                     \* it handled last, whether fs.renameSync succeeded for each
                     \* operation, the calls of fs.renameSync it made and the
                     \* results it returned
    finished         \* the calls of renameFiles that went on from their await:
                     \* the operations each had computed and the results it got

engineVars == <<value, subscribers, effects, pendingEffects, isFlushing,
                microtasks, flushIdx, program>>
obsVars == <<runs, owed, turnWrites, lastOp, ran>>
pureVars == <<pFilename, pChain, pValid, pOut, pc>>
appVars == <<dom, alloc, adding, inflight, main, finished>>
vars == <<engineVars, obsVars, pureVars, appVars>>

\* what a step of one part of the model leaves alone
EngineOnly == UNCHANGED <<pureVars, appVars>>
PureOnly == UNCHANGED <<engineVars, obsVars, appVars>>

(***************************************************************************)
(* Helpers: a JavaScript Set is a sequence without duplicates, iterated in *)
(* insertion order; adding a member it already holds changes nothing.      *)
(***************************************************************************)
Range(q) == {q[i] : i \in 1..Len(q)}
SetAdd(q, x) == IF x \in Range(q) THEN q ELSE Append(q, x)

RECURSIVE SumOver(_, _)
SumOver(f, S) ==
    IF S = {} THEN 0
    ELSE LET x == CHOOSE y \in S : \A z \in S : y <= z
         IN f[x] + SumOver(f, S \ {x})

(***************************************************************************)
(* The engine's state as one record, so that the functions of signals.js   *)
(* compose as they do in the code.                                         *)
(***************************************************************************)
Engine ==
    [value |-> value, subscribers |-> subscribers, effects |-> effects,
     pendingEffects |-> pendingEffects, isFlushing |-> isFlushing,
     microtasks |-> microtasks, inFlush |-> flushIdx >= 1,
     runs |-> runs, owed |-> owed, turnWrites |-> turnWrites, ran |-> <<>>]

SetEngine(g) ==
    /\ value' = g.value
    /\ subscribers' = g.subscribers
    /\ effects' = g.effects
    /\ pendingEffects' = g.pendingEffects
    /\ isFlushing' = g.isFlushing
    /\ microtasks' = g.microtasks
    /\ runs' = g.runs
    /\ owed' = g.owed
    /\ turnWrites' = g.turnWrites
    /\ ran' = g.ran

\* the observation of scheduleEffect(e): e is owed an execution when the
\* write that schedules it is made by another effect that flushEffects runs
Owe(g, e) ==
    IF g.inFlush /\ g.effects # <<>> /\ g.effects[Len(g.effects)] # e
    THEN g.owed \cup {e}
    ELSE g.owed

\* scheduleEffect(effect), with an array in place of the Set
scheduleEffect_Array(g, e) ==
    LET g1 == [g EXCEPT !.pendingEffects = Append(@, e),
                        !.owed = Owe(g, e)]
    IN IF ~g.isFlushing
       THEN [g1 EXCEPT !.isFlushing = TRUE, !.microtasks = @ + 1]
       ELSE g1

\* scheduleEffect(effect), with the isFlushing test left out
scheduleEffect_Ungated(g, e) ==
    [g EXCEPT !.pendingEffects = SetAdd(@, e),
              !.owed = Owe(g, e),
              !.isFlushing = TRUE,
              !.microtasks = @ + 1]

\* scheduleEffect(effect)
scheduleEffect(g, e) ==
    LET g1 == [g EXCEPT !.pendingEffects = SetAdd(@, e),
                        !.owed = Owe(g, e)]
    IN IF ~g.isFlushing
       THEN [g1 EXCEPT !.isFlushing = TRUE, !.microtasks = @ + 1]
       ELSE g1

\* subscribers.forEach((subscriber) => scheduleEffect(subscriber))
RECURSIVE ScheduleAll(_, _, _)
ScheduleAll(g, subs, i) ==
    IF i > Len(subs) THEN g
    ELSE ScheduleAll(scheduleEffect(g, subs[i]), subs, i + 1)

\* the observation of a value-changing write: it counts for every subscriber
CountWrite(g, s) ==
    [g EXCEPT !.turnWrites =
        [e \in DOMAIN g.turnWrites |->
            IF e \in Range(g.subscribers[s]) /\ g.effects = <<>>
            THEN @[e] + 1 ELSE @[e]]]

\* createSignal's write, with the equality test left out
write_NoGate(g, s, v) ==
    ScheduleAll(CountWrite([g EXCEPT !.value[s] = v], s), g.subscribers[s], 1)

\* createSignal's write(newValue)
write(g, s, v) ==
    IF g.value[s] = v THEN g
    ELSE ScheduleAll(CountWrite([g EXCEPT !.value[s] = v], s),
                     g.subscribers[s], 1)

\* a read() that subscribes the outermost effect of the stack
read_Outermost(g, s) ==
    IF g.effects # <<>>
    THEN [g EXCEPT !.subscribers[s] = SetAdd(@, g.effects[1])]
    ELSE g

\* createSignal's read(): the state after the read (the value read is g.value[s])
read(g, s) ==
    IF g.effects # <<>>
    THEN [g EXCEPT !.subscribers[s] = SetAdd(@, g.effects[Len(g.effects)])]
    ELSE g

RECURSIVE ReadAll(_, _)
ReadAll(g, S) ==
    IF S = {} THEN g
    ELSE LET s == CHOOSE y \in S : TRUE
         IN ReadAll(read(g, s), S \ {s})

(***************************************************************************)
(* The functions given to createEffect: fn reads the signals p.reads and,  *)
(* when p.target is a signal, writes it the sum of what it read (a         *)
(* computed's setValue(fn()) when one signal is read).                     *)
(***************************************************************************)
Programs ==
    [reads : (SUBSET Signals) \ {{}}, target : Signals \cup {NoTarget}]

\* what the function of a program returns from the values of g: a program
\* with a guard is () => guard() ? <the sum of its reads> : 0
Returns(g, p) ==
    IF "guard" \in DOMAIN p /\ g.value[p.guard] = 0 THEN 0
    ELSE SumOver(g.value, p.reads) % (MaxValue + 1)

\* the signals the function of a program reads in the state g
ReadsOf(g, p) ==
    IF "guard" \in DOMAIN p
    THEN IF g.value[p.guard] = 0 THEN {p.guard} ELSE {p.guard} \cup p.reads
    ELSE p.reads

\* the function of a program throws, after its reads, when the signal
\* p.throwsIf holds a value other than 0: () => { if (s()) throw ... }
Throws(g, p) == "throwsIf" \in DOMAIN p /\ g.value[p.throwsIf] # 0

\* effects.push(effect): the execution e may be owed starts
Push(g, e) ==
    [g EXCEPT !.effects = Append(@, e), !.owed = @ \ {e}, !.ran = Append(@, e)]

\* effects.pop()
Pop(g) == [g EXCEPT !.effects = SubSeq(@, 1, Len(@) - 1)]

\* a function that reads and, with a target, writes
plainFn(g, p) ==
    LET g1 == ReadAll(g, ReadsOf(g, p))
    IN IF p.target = NoTarget \/ Throws(g, p) THEN g1
       ELSE write(g1, p.target, Returns(g, p))

\* a program with the field inner is
\*     () => { <reads>; createEffect(<inner>); <after> }
\* and the effect it creates in this run is p.innerId
fn(g, p) ==
    IF "inner" \in DOMAIN p
    THEN LET g1 == ReadAll(g, p.reads)
             g2 == Pop(plainFn(Push(g1, p.innerId), p.inner))
         IN ReadAll(g2, p.after)
    ELSE plainFn(g, p)

\* a closure that calls fn() a second time
effect_Twice(g, e, p) == Pop(fn(Push(Pop(fn(Push(g, e), p)), e), p))

\* the closure `effect' of createEffect: push, fn(), pop; an exception of
\* fn() leaves the closure before the pop
effect(g, e, p) ==
    IF Throws(g, p) THEN fn(Push(g, e), p) ELSE Pop(fn(Push(g, e), p))

(***************************************************************************)
(* Actions of the engine.                                                  *)
(***************************************************************************)
InitEngine ==
    /\ value = [s \in Signals |-> 0]
    /\ subscribers = [s \in Signals |-> <<>>]
    /\ effects = <<>>
    /\ pendingEffects = <<>>
    /\ isFlushing = FALSE
    /\ microtasks = 0
    /\ flushIdx = 0
    /\ program = [e \in Effects |-> NoProgram]
    /\ runs = [e \in Effects |-> 0]
    /\ owed = {}
    /\ turnWrites = [e \in Effects |-> 0]
    /\ lastOp = "init"
    /\ ran = <<>>

\* createEffect(fn): runs the effect once, synchronously
CreateEffect(e, p) ==
    /\ flushIdx = 0
    /\ program[e] = NoProgram
    /\ \A d \in Effects : d < e => program[d] # NoProgram
    /\ program' = [program EXCEPT ![e] = p]
    /\ SetEngine(effect(Engine, e, p))
    /\ lastOp' = "createEffect"
    /\ UNCHANGED flushIdx
    /\ EngineOnly

\* a write made by an event handler, in the current synchronous turn
Write(s, v) ==
    /\ flushIdx = 0
    /\ \A e \in DOMAIN turnWrites : turnWrites[e] < MaxWrites
    /\ SetEngine(write(Engine, s, v))
    /\ lastOp' = IF v = value[s] THEN "writeSame" ELSE "writeNew"
    /\ UNCHANGED <<flushIdx, program>>
    /\ EngineOnly

\* the microtask starts: flushEffects enters its loop
FlushStart ==
    /\ flushIdx = 0
    /\ microtasks > 0
    /\ microtasks' = microtasks - 1
    /\ flushIdx' = 1
    /\ lastOp' = "flushStart"
    /\ ran' = <<>>
    /\ UNCHANGED <<value, subscribers, effects, pendingEffects, isFlushing,
                   program, runs, owed, turnWrites>>
    /\ EngineOnly

\* one iteration of `for (const effect of pendingEffects) effect()'
FlushRun ==
    /\ flushIdx >= 1
    /\ flushIdx <= Len(pendingEffects)
    /\ ~Throws(Engine, program[pendingEffects[flushIdx]])
    /\ "inner" \notin DOMAIN program[pendingEffects[flushIdx]]
    /\ LET e == pendingEffects[flushIdx]
           g == effect(Engine, e, program[e])
       IN /\ SetEngine([g EXCEPT !.runs[e] = @ + 1])
          /\ lastOp' = "run"
    /\ flushIdx' = flushIdx + 1
    /\ UNCHANGED program
    /\ EngineOnly

\* an iteration in which effect() throws: the exception leaves flushEffects,
\* the microtask is over, clear() and `isFlushing = false' are not reached
FlushThrows ==
    /\ flushIdx >= 1
    /\ flushIdx <= Len(pendingEffects)
    /\ Throws(Engine, program[pendingEffects[flushIdx]])
    /\ LET e == pendingEffects[flushIdx]
           g == effect(Engine, e, program[e])
       IN SetEngine([g EXCEPT !.runs = [d \in DOMAIN g.runs |-> 0],
                             !.turnWrites = [d \in DOMAIN g.turnWrites |-> 0]])
    /\ lastOp' = "threw"
    /\ flushIdx' = 0
    /\ UNCHANGED program
    /\ EngineOnly

\* a read made by an event handler
Read(s) ==
    /\ flushIdx = 0
    /\ SetEngine(read(Engine, s))
    /\ lastOp' = "read"
    /\ UNCHANGED <<flushIdx, program>>
    /\ EngineOnly

\* the loop is over: pendingEffects.clear(); isFlushing = false
FlushEnd ==
    /\ flushIdx >= 1
    /\ flushIdx > Len(pendingEffects)
    /\ pendingEffects' = <<>>
    /\ isFlushing' = FALSE
    /\ flushIdx' = 0
    /\ runs' = [e \in DOMAIN runs |-> 0]
    /\ turnWrites' = [e \in DOMAIN turnWrites |-> 0]
    /\ lastOp' = "flushEnd"
    /\ ran' = <<>>
    /\ UNCHANGED <<value, subscribers, effects, microtasks, program, owed>>
    /\ EngineOnly

NextEngine ==
    \/ \E e \in Effects, p \in Programs : CreateEffect(e, p)
    \/ \E s \in Signals, v \in Values : Write(s, v)
    \/ FlushStart
    \/ FlushRun
    \/ FlushEnd

PureIdle ==
    /\ pFilename = <<>>
    /\ pChain = <<>>
    /\ pValid = <<>>
    /\ pOut = <<>>
    /\ pc = "idle"

AppIdle ==
    /\ dom = <<>>
    /\ alloc = <<>>
    /\ adding = <<>>
    /\ inflight = <<>>
    /\ main = <<>>
    /\ finished = <<>>

InitEngineSpec == InitEngine /\ PureIdle /\ AppIdle

SpecEngine == InitEngineSpec /\ [][NextEngine]_vars

(***************************************************************************)
(* JavaScript strings are sequences of one-character strings; positions    *)
(* are zero-based as in the code.                                          *)
(***************************************************************************)
Min(a, b) == IF a <= b THEN a ELSE b
Max(a, b) == IF a >= b THEN a ELSE b
\* a clamp that takes a negative position for the end of the string
Clamp_NegativeToEnd(i, n) == IF i < 0 THEN n ELSE Min(i, n)
\* the clamp of a position to 0..length
Clamp(i, n) == Max(0, Min(i, n))

\* String.prototype.substring(start, end): both clamped to 0..length, swapped
\* when start > end
substring(s, start, end) ==
    LET a == Clamp(start, Len(s))
        b == Clamp(end, Len(s))
    IN SubSeq(s, Min(a, b) + 1, Max(a, b))

\* String.prototype.substring(start)
substringFrom(s, start) == substring(s, start, Len(s))

\* String.prototype.lastIndexOf(c) for a one-character c
lastIndexOf(s, c) ==
    IF \E i \in 1..Len(s) : s[i] = c
    THEN (CHOOSE i \in 1..Len(s) : s[i] = c /\ \A j \in (i + 1)..Len(s) : s[j] # c) - 1
    ELSE -1

\* t occurs in s at position i
OccursAt(s, t, i) ==
    /\ i >= 0
    /\ i + Len(t) <= Len(s)
    /\ \A k \in 1..Len(t) : s[i + k] = t[k]

\* String.prototype.indexOf(t, from)
indexOfFrom(s, t, from) ==
    IF \E i \in from..Len(s) : OccursAt(s, t, i)
    THEN CHOOSE i \in from..Len(s) :
            OccursAt(s, t, i) /\ \A j \in from..(i - 1) : ~OccursAt(s, t, j)
    ELSE -1

\* a split that cuts at the first separator only
split_FirstOnly(s, sep) ==
    LET i == indexOfFrom(s, sep, 0)
    IN IF i = -1 THEN <<s>>
       ELSE <<substring(s, 0, i), substringFrom(s, i + Len(sep))>>

\* String.prototype.split(separator) for a non-empty separator
RECURSIVE split(_, _)
split(s, sep) ==
    LET i == indexOfFrom(s, sep, 0)
    IN IF i = -1 THEN <<s>>
       ELSE <<substring(s, 0, i)>> \o split(substringFrom(s, i + Len(sep)), sep)

\* Array.prototype.join(separator)
RECURSIVE join(_, _)
join(parts, sep) ==
    IF Len(parts) = 0 THEN <<>>
    ELSE IF Len(parts) = 1 THEN parts[1]
    ELSE parts[1] \o sep \o join(Tail(parts), sep)

\* toUpperCase of one character (the Canonicalize of an ignoreCase RegExp)
UpperOf ==
    [a |-> "A", b |-> "B", c |-> "C", d |-> "D", e |-> "E", f |-> "F",
     g |-> "G", h |-> "H", i |-> "I", j |-> "J", k |-> "K", l |-> "L",
     m |-> "M", n |-> "N", o |-> "O", p |-> "P", q |-> "Q", r |-> "R",
     s |-> "S", t |-> "T", u |-> "U", v |-> "V", w |-> "W", x |-> "X",
     y |-> "Y", z |-> "Z"]
Canonicalize(c) == IF c \in DOMAIN UpperOf THEN UpperOf[c] ELSE c

\* \s of a RegExp and the white space of String.prototype.trim
IsSpace(c) == c \in {" ", "\t"}

(***************************************************************************)
(* Regular expressions.  The model parses the patterns PatternModelled     *)
(* admits: literal characters, backslash escapes of syntax characters,     *)
(* `.', the quantifier `+', and the malformed patterns with an unclosed    *)
(* group or class, an unmatched `)', a dangling quantifier or backslash.   *)
(***************************************************************************)
\* the characters search.replace(/[.*+?^${}()|[\]\\]/g, "\\$&") escapes
EscapedChars ==
    {".", "*", "+", "?", "^", "$", "{", "}", "(", ")", "|", "[", "]", "\\"}

PatternModelled(p) ==
    /\ \A i \in 1..Len(p) :
          (p[i] \in {"*", "?", "^", "$", "|"}) => (i > 1 /\ p[i - 1] = "\\")
    /\ \A i \in 1..(Len(p) - 1) :
          (p[i] = "\\" /\ (i = 1 \/ p[i - 1] # "\\")) => p[i + 1] \in EscapedChars
    /\ ~(\E i, j \in 1..Len(p) : i < j /\ p[i] = "(" /\ p[j] = ")")
    /\ ~(\E i, j \in 1..Len(p) : i < j /\ p[i] = "[" /\ p[j] = "]")

\* the pattern parser of `new RegExp(pattern)': [ok, atoms]; ok is FALSE where
\* the constructor throws a SyntaxError
RECURSIVE ParsePattern(_, _, _)
ParsePattern(p, i, atoms) ==
    IF i > Len(p) THEN [ok |-> TRUE, atoms |-> atoms]
    ELSE LET c == p[i]
         IN CASE c = "\\" ->
                   IF i = Len(p) THEN [ok |-> FALSE, atoms |-> <<>>]
                   ELSE ParsePattern(p, i + 2,
                           Append(atoms, [kind |-> "lit", ch |-> p[i + 1], plus |-> FALSE]))
              [] c = "." ->
                   ParsePattern(p, i + 1,
                       Append(atoms, [kind |-> "any", ch |-> ".", plus |-> FALSE]))
              [] c = "+" ->
                   IF atoms = <<>> \/ atoms[Len(atoms)].plus
                   THEN [ok |-> FALSE, atoms |-> <<>>]
                   ELSE ParsePattern(p, i + 1,
                           [atoms EXCEPT ![Len(atoms)].plus = TRUE])
              [] c \in {"(", ")", "["} -> [ok |-> FALSE, atoms |-> <<>>]
              [] OTHER ->
                   ParsePattern(p, i + 1,
                       Append(atoms, [kind |-> "lit", ch |-> c, plus |-> FALSE]))

\* the flags parser of `new RegExp(pattern, flags)'
FlagChars == {"d", "g", "i", "m", "s", "u", "v", "y"}
FlagsOk(f) ==
    /\ \A i \in 1..Len(f) : f[i] \in FlagChars
    /\ \A i, j \in 1..Len(f) : i # j => f[i] # f[j]

\* new RegExp(pattern, flags)
RegExp(pattern, flags) ==
    LET parsed == ParsePattern(pattern, 1, <<>>)
    IN [ok |-> parsed.ok /\ FlagsOk(flags),
        atoms |-> parsed.atoms,
        global |-> "g" \in Range(flags),
        ignoreCase |-> "i" \in Range(flags)]

\* one pattern character against one input character
CharMatches(a, c, ignoreCase) ==
    \/ a.kind = "any"
    \/ IF ignoreCase THEN Canonicalize(a.ch) = Canonicalize(c) ELSE a.ch = c

\* the number of consecutive characters from pos on that atom a matches
RECURSIVE RunLength(_, _, _, _)
RunLength(a, s, pos, ignoreCase) ==
    IF pos < Len(s) /\ CharMatches(a, s[pos + 1], ignoreCase)
    THEN 1 + RunLength(a, s, pos + 1, ignoreCase)
    ELSE 0

\* the backtracking matcher: the end of the match of atoms k.. at pos, or -1
RECURSIVE MatchFrom(_, _, _, _, _)
RECURSIVE MatchPlus(_, _, _, _, _, _)
MatchFrom(atoms, k, s, pos, ignoreCase) ==
    IF k > Len(atoms) THEN pos
    ELSE IF atoms[k].plus
         THEN MatchPlus(atoms, k, s, pos, ignoreCase,
                        RunLength(atoms[k], s, pos, ignoreCase))
         ELSE IF pos < Len(s) /\ CharMatches(atoms[k], s[pos + 1], ignoreCase)
              THEN MatchFrom(atoms, k + 1, s, pos + 1, ignoreCase)
              ELSE -1
\* greedy: the longest run first, then shorter ones
MatchPlus(atoms, k, s, pos, ignoreCase, n) ==
    IF n < 1 THEN -1
    ELSE LET e == MatchFrom(atoms, k + 1, s, pos + n, ignoreCase)
         IN IF e # -1 THEN e
            ELSE MatchPlus(atoms, k, s, pos, ignoreCase, n - 1)

\* GetSubstitution of a match without capture groups, for replacement texts
\* without a backtick or an apostrophe: $$ and $& are expanded, every other
\* character (and $n, $<) stands for itself
RECURSIVE GetSubstitution(_, _, _, _, _)
GetSubstitution(matched, str, position, replacement, k) ==
    IF k > Len(replacement) THEN <<>>
    ELSE IF replacement[k] # "$" \/ k = Len(replacement)
         THEN <<replacement[k]>>
                 \o GetSubstitution(matched, str, position, replacement, k + 1)
         ELSE LET n == replacement[k + 1]
              IN CASE n = "$" ->
                        <<"$">> \o GetSubstitution(matched, str, position, replacement, k + 2)
                   [] n = "&" ->
                        matched \o GetSubstitution(matched, str, position, replacement, k + 2)
                   [] OTHER ->
                        <<"$">> \o GetSubstitution(matched, str, position, replacement, k + 1)

\* the first position >= from where the pattern matches, or -1
FirstMatch(re, s, from) ==
    LET hit(i) == MatchFrom(re.atoms, 1, s, i, re.ignoreCase) # -1
    IN IF \E i \in from..Len(s) : hit(i)
       THEN CHOOSE i \in from..Len(s) : hit(i) /\ \A j \in from..(i - 1) : ~hit(j)
       ELSE -1

\* String.prototype.replace(regexp, replacement) for a pattern that matches no
\* empty string: every match when the RegExp is global, else the first
RECURSIVE RegExpReplace(_, _, _, _)
RegExpReplace(re, s, replacement, from) ==
    LET i == FirstMatch(re, s, from)
    IN IF i = -1 THEN substringFrom(s, from)
       ELSE LET e == MatchFrom(re.atoms, 1, s, i, re.ignoreCase)
                sub == GetSubstitution(substring(s, i, e), s, i, replacement, 1)
            IN substring(s, from, i) \o sub \o
               (IF re.global /\ e > i
                THEN RegExpReplace(re, s, replacement, e)
                ELSE substringFrom(s, e))

\* search.replace(/[.*+?^${}()|[\]\\]/g, "\\$&")
RECURSIVE escapeRegExp(_)
escapeRegExp(search) ==
    IF search = <<>> THEN <<>>
    ELSE (IF Head(search) \in EscapedChars
          THEN <<"\\", Head(search)>> ELSE <<Head(search)>>)
         \o escapeRegExp(Tail(search))

\* String.prototype.trim
RECURSIVE trimStart(_)
trimStart(s) ==
    IF s # <<>> /\ IsSpace(Head(s)) THEN trimStart(Tail(s)) ELSE s
RECURSIVE trimEnd(_)
trimEnd(s) ==
    IF s # <<>> /\ IsSpace(s[Len(s)]) THEN trimEnd(SubSeq(s, 1, Len(s) - 1)) ELSE s
trim(s) == trimEnd(trimStart(s))

\* replace(/\s{2,}/g, " "): every run of two or more white space characters
\* becomes one space
RECURSIVE collapseSpaces(_)
collapseSpaces(s) ==
    IF s = <<>> THEN <<>>
    ELSE IF Len(s) >= 2 /\ IsSpace(s[1]) /\ IsSpace(s[2])
         THEN <<" ">> \o collapseSpaces(trimStart(s))
         ELSE <<Head(s)>> \o collapseSpaces(Tail(s))

\* a bracket removal that runs from the leftmost opening bracket to the last
\* closing one
removeBracketed_Greedy(s, open, close) ==
    LET starts == {i \in 1..Len(s) :
                      s[i] = open /\ \E j \in (i + 1)..Len(s) : s[j] = close}
    IN IF starts = {} THEN s
       ELSE LET i == CHOOSE x \in starts : \A y \in starts : x <= y
                j == CHOOSE x \in (i + 1)..Len(s) :
                        s[x] = close /\ \A y \in (x + 1)..Len(s) : s[y] # close
            IN SubSeq(s, 1, i - 1) \o SubSeq(s, j + 1, Len(s))

\* replace(/\([^)]*\)/g, "") and its square and curly variants: the leftmost
\* opening bracket that a closing one follows, up to the first closing one
RECURSIVE removeBracketed(_, _, _)
removeBracketed(s, open, close) ==
    LET starts == {i \in 1..Len(s) :
                      s[i] = open /\ \E j \in (i + 1)..Len(s) : s[j] = close}
    IN IF starts = {} THEN s
       ELSE LET i == CHOOSE x \in starts : \A y \in starts : x <= y
                j == CHOOSE x \in (i + 1)..Len(s) :
                        s[x] = close /\ \A y \in (i + 1)..(x - 1) : s[y] # close
            IN SubSeq(s, 1, i - 1)
                  \o removeBracketed(SubSeq(s, j + 1, Len(s)), open, close)

(***************************************************************************)
(* The rule chain: a rule's signals (createRuleSignals), the validity      *)
(* filter (getRulesFromSignals) and the transformation engine              *)
(* (applyRulesLocally).                                                    *)
(***************************************************************************)
RULE_TYPES ==
    <<"replace", "replace-case-insensitive", "regex", "trim", "trim-whitespace",
      "prefix", "suffix", "remove-parentheses", "remove-square-brackets",
      "remove-curly-brackets">>

\* createRuleSignals(): the initial values of a rule's signals
createRuleSignals ==
    [type |-> "replace", enabled |-> TRUE, search |-> <<>>, replacement |-> <<>>,
     pattern |-> <<>>, flags |-> <<"g">>, position |-> "start", count |-> 1,
     text |-> <<>>]

\* one iteration of getRulesFromSignals' loop: the rules it pushes for r
RuleFromSignals(r) ==
    IF ~r.enabled THEN <<>>
    ELSE CASE r.type = "replace" ->
                IF r.search # <<>>
                THEN <<[type |-> r.type,
                        data |-> [search |-> r.search, replacement |-> r.replacement]]>>
                ELSE <<>>
           [] r.type = "replace-case-insensitive" ->
                IF r.search # <<>>
                THEN <<[type |-> r.type,
                        data |-> [search |-> r.search, replacement |-> r.replacement,
                                  caseInsensitive |-> TRUE]]>>
                ELSE <<>>
           [] r.type = "regex" ->
                IF r.pattern # <<>>
                THEN <<[type |-> r.type,
                        data |-> [pattern |-> r.pattern, replacement |-> r.replacement,
                                  flags |-> IF r.flags # <<>> THEN r.flags ELSE <<"g">>]]>>
                ELSE <<>>
           [] r.type = "trim" ->
                IF r.count > 0
                THEN <<[type |-> r.type,
                        data |-> [position |-> IF r.position \in {"start", "end"}
                                               THEN r.position ELSE "start",
                                  count |-> r.count]]>>
                ELSE <<>>
           [] r.type \in {"prefix", "suffix"} ->
                IF r.text # <<>>
                THEN <<[type |-> r.type, data |-> [text |-> r.text]]>>
                ELSE <<>>
           [] r.type \in {"trim-whitespace", "remove-parentheses",
                          "remove-square-brackets", "remove-curly-brackets"} ->
                <<[type |-> r.type, data |-> [none |-> TRUE]]>>
           [] OTHER -> <<>>

\* getRulesFromSignals(), reading the chain from its last rule to its first
RECURSIVE getRulesFromSignals_Reversed(_)
getRulesFromSignals_Reversed(chain) ==
    IF chain = <<>> THEN <<>>
    ELSE getRulesFromSignals_Reversed(Tail(chain)) \o RuleFromSignals(Head(chain))

\* getRulesFromSignals(), without the test of the enabled signal
RECURSIVE getRulesFromSignals_IgnoreEnabled(_)
getRulesFromSignals_IgnoreEnabled(chain) ==
    IF chain = <<>> THEN <<>>
    ELSE RuleFromSignals([Head(chain) EXCEPT !.enabled = TRUE])
            \o getRulesFromSignals_IgnoreEnabled(Tail(chain))

\* getRulesFromSignals(): chain holds the values of each rule's signals
RECURSIVE getRulesFromSignals(_)
getRulesFromSignals(chain) ==
    IF chain = <<>> THEN <<>>
    ELSE RuleFromSignals(Head(chain)) \o getRulesFromSignals(Tail(chain))

\* what applyRulesLocally's caller gets when new RegExp throws outside the try
Thrown == <<"SyntaxError">>

\* the body of applyRulesLocally's switch: nameWithoutExt after one rule
RuleStep(rule, nameWithoutExt) ==
    LET d == rule.data
    IN CASE rule.type = "regex" ->
              IF d.pattern # <<>>
              THEN LET regex == RegExp(d.pattern,
                                       IF d.flags # <<>> THEN d.flags ELSE <<"g">>)
                   IN IF regex.ok
                      THEN RegExpReplace(regex, nameWithoutExt, d.replacement, 0)
                      ELSE nameWithoutExt
              ELSE nameWithoutExt
         [] rule.type = "replace" ->
              IF d.search # <<>>
              THEN join(split(nameWithoutExt, d.search), d.replacement)
              ELSE nameWithoutExt
         [] rule.type = "replace-case-insensitive" ->
              IF d.search # <<>>
              THEN LET regex == RegExp(escapeRegExp(d.search), <<"g", "i">>)
                   IN IF regex.ok
                      THEN RegExpReplace(regex, nameWithoutExt, d.replacement, 0)
                      ELSE Thrown
              ELSE nameWithoutExt
         [] rule.type = "trim" ->
              IF d.position = "start" /\ d.count # 0
              THEN substringFrom(nameWithoutExt, d.count)
              ELSE IF d.position = "end" /\ d.count # 0
                   THEN substring(nameWithoutExt, 0, Len(nameWithoutExt) - d.count)
                   ELSE nameWithoutExt
         [] rule.type = "trim-whitespace" -> collapseSpaces(trim(nameWithoutExt))
         [] rule.type = "prefix" ->
              IF d.text # <<>> THEN d.text \o nameWithoutExt ELSE nameWithoutExt
         [] rule.type = "suffix" ->
              IF d.text # <<>> THEN nameWithoutExt \o d.text ELSE nameWithoutExt
         [] rule.type = "remove-parentheses" -> removeBracketed(nameWithoutExt, "(", ")")
         [] rule.type = "remove-square-brackets" -> removeBracketed(nameWithoutExt, "[", "]")
         [] rule.type = "remove-curly-brackets" -> removeBracketed(nameWithoutExt, "{", "}")
         [] OTHER -> nameWithoutExt

\* applyRulesLocally's loop, taking the rules from the last to the first
RECURSIVE ApplyLoop_Reversed(_, _, _)
ApplyLoop_Reversed(nameWithoutExt, rules, i) ==
    IF i > Len(rules) \/ nameWithoutExt = Thrown THEN nameWithoutExt
    ELSE ApplyLoop_Reversed(RuleStep(rules[Len(rules) + 1 - i], nameWithoutExt),
                            rules, i + 1)

\* applyRulesLocally's loop without the try around new RegExp: a regex rule
\* that does not compile ends the loop with the error
RECURSIVE ApplyLoop_NoTry(_, _, _)
ApplyLoop_NoTry(nameWithoutExt, rules, i) ==
    IF i > Len(rules) \/ nameWithoutExt = Thrown THEN nameWithoutExt
    ELSE IF rules[i].type = "regex"
              /\ ~RegExp(rules[i].data.pattern, rules[i].data.flags).ok
         THEN Thrown
         ELSE ApplyLoop_NoTry(RuleStep(rules[i], nameWithoutExt), rules, i + 1)

\* applyRulesLocally's loop: for (const rule of rules) switch (rule.type) ...
RECURSIVE ApplyLoop(_, _, _)
ApplyLoop(nameWithoutExt, rules, i) ==
    IF i > Len(rules) \/ nameWithoutExt = Thrown THEN nameWithoutExt
    ELSE ApplyLoop(RuleStep(rules[i], nameWithoutExt), rules, i + 1)

\* applyRulesLocally, applying the rules to the whole file name
applyRulesLocally_WholeName(filename, rules) == ApplyLoop(filename, rules, 1)

\* applyRulesLocally(filename, rules)
applyRulesLocally(filename, rules) ==
    LET lastDotIndex == lastIndexOf(filename, ".")
        hasExtension == lastDotIndex > 0
        nameWithoutExt == IF hasExtension
                          THEN substring(filename, 0, lastDotIndex)
                          ELSE filename
        ext == IF hasExtension THEN substringFrom(filename, lastDotIndex) ELSE <<>>
        out == ApplyLoop(nameWithoutExt, rules, 1)
    IN IF out = Thrown THEN Thrown ELSE out \o ext

(***************************************************************************)
(* The transformation engine as a state machine: a file name, a chain of   *)
(* rules built by appending rules, and the preview of the chain.           *)
(***************************************************************************)
\* all strings over the characters A of length lo..hi
StringsOver(A, lo, hi) == UNION {[1..n -> A] : n \in lo..hi}

Rule(type) == [createRuleSignals EXCEPT !.type = type]
Disabled(r) == [r EXCEPT !.enabled = FALSE]

\* file names of the chain specification: every placement of dots, and names
\* with white space and brackets
ChainNames ==
    StringsOver({"a", "."}, 1, MaxNameLen)
        \cup {<<" ", "a", " ", " ", "a", ".", "a">>,
              <<"a", "(", "a", ")", "[", "]", "{", "a", "}", ".", "a">>}

\* rules of the chain specification: of every type, valid and invalid, enabled
\* and disabled
ChainRules ==
    LET enabledRules ==
          {Rule("replace"),
           [Rule("replace") EXCEPT !.search = <<"a">>, !.replacement = <<".">>],
           [Rule("replace") EXCEPT !.search = <<".">>],
           [Rule("replace-case-insensitive") EXCEPT !.search = <<"A">>,
                                                    !.replacement = <<"b">>],
           [Rule("regex") EXCEPT !.pattern = <<".">>, !.replacement = <<"x">>],
           [Rule("regex") EXCEPT !.pattern = <<"(">>, !.replacement = <<"x">>],
           [Rule("regex") EXCEPT !.replacement = <<"x">>],
           [Rule("regex") EXCEPT !.pattern = <<"a">>, !.replacement = <<"x">>,
                                 !.flags = <<"g", "g">>],
           [Rule("regex") EXCEPT !.pattern = <<"a">>, !.replacement = <<"x">>,
                                 !.flags = <<"x">>],
           Rule("trim"),
           [Rule("trim") EXCEPT !.position = "end"],
           [Rule("trim") EXCEPT !.count = -1],
           Rule("trim-whitespace"),
           [Rule("prefix") EXCEPT !.text = <<"x">>],
           Rule("prefix"),
           [Rule("suffix") EXCEPT !.text = <<".">>],
           Rule("remove-parentheses"),
           Rule("remove-square-brackets"),
           Rule("remove-curly-brackets")}
    IN {r \in enabledRules : PatternModelled(r.pattern)} \cup
       {Disabled([Rule("replace") EXCEPT !.search = <<"a">>, !.replacement = <<".">>]),
        Disabled([Rule("prefix") EXCEPT !.text = <<"x">>]),
        Disabled(Rule("trim-whitespace"))}

InitPure(names) ==
    /\ pFilename \in names
    /\ pChain = <<>>
    /\ pValid = <<>>
    /\ pOut = <<>>
    /\ pc = "edited"

\* a rule is appended to the chain (addRule and the edits of its row)
AddRuleObj(r, maxLen) ==
    /\ pc = "shown"
    /\ Len(pChain) < maxLen
    /\ pChain' = Append(pChain, r)
    /\ pc' = "edited"
    /\ UNCHANGED <<pFilename, pValid, pOut>>
    /\ PureOnly

\* the preview of one file: getRulesFromSignals, then applyRulesLocally
Preview ==
    /\ pc = "edited"
    /\ pValid' = getRulesFromSignals(pChain)
    /\ pOut' = applyRulesLocally(pFilename, getRulesFromSignals(pChain))
    /\ pc' = "shown"
    /\ UNCHANGED <<pFilename, pChain>>
    /\ PureOnly

NextChain ==
    \/ \E r \in ChainRules : AddRuleObj(r, MaxChain)
    \/ Preview

InitChain == InitPure(ChainNames) /\ InitEngine /\ AppIdle

SpecChain == InitChain /\ [][NextChain]_vars

(***************************************************************************)
(* The transformation engine applied to a chain of one rule of the two     *)
(* replace kinds, for every search and replacement text of the bounds.     *)
(***************************************************************************)
ReplaceNames ==
    StringsOver({"a", "A", "."}, 1, MaxNameLen)
        \cup {<<"a", ".", "b", ".", "t", "x", "t">>,
              <<"F", "O", "O", "-", "b", "a", "r", ".", "t", "x", "t">>}

ReplaceSearches ==
    StringsOver({"a", "A", "."}, 1, MaxSearchLen)
        \cup {<<"f", "o", "o">>}

ReplaceReplacements ==
    {<<>>} \cup StringsOver({"a", "_", "$", "&"}, 1, MaxReplacementLen)
        \cup {<<"X">>}

\* the chains of one enabled rule of a replace kind
ReplaceChains ==
    {<<[createRuleSignals EXCEPT !.type = t, !.search = v, !.replacement = w]>> :
        t \in {"replace", "replace-case-insensitive"},
        v \in ReplaceSearches \cup {<<>>},
        w \in ReplaceReplacements}

InitReplace ==
    /\ pFilename \in ReplaceNames
    /\ pChain \in ReplaceChains
    /\ pValid = <<>>
    /\ pOut = <<>>
    /\ pc = "edited"
    /\ InitEngine
    /\ AppIdle

SpecReplace == InitReplace /\ [][Preview]_vars

(***************************************************************************)
(* The transformation engine applied to a chain of one trim rule or one    *)
(* bracket-removal rule, for every count up to MaxCount and every          *)
(* placement of brackets in the name.                                      *)
(***************************************************************************)
OneRuleNames ==
    StringsOver({"a", "."}, 1, MaxNameLen)
        \cup StringsOver({"a", "(", ")"}, 1, MaxNameLen + 1)
        \cup {<<"h", "e", "l", "l", "o", ".", "p", "n", "g">>,
              <<"a", "(", "b", "(", "c", ")", "d", ")", "e", ".", "t", "x", "t">>,
              <<"a", "[", "b", "[", "c", "]", "d", "]", "e", ".", "t">>,
              <<"}", "a", "{", "b", "{", "c", "}", "{", "}", "d", "{", "e">>,
              <<"(", "a", ".", "b", ")">>,
              <<"(", "[", "{", ")", "]", "}">>}

OneRuleChains ==
    {<<[Rule("trim") EXCEPT !.position = p, !.count = n]>> :
        p \in {"start", "end"}, n \in 1..MaxCount}
      \cup {<<Rule(t)>> : t \in {"remove-parentheses", "remove-square-brackets",
                                 "remove-curly-brackets"}}

InitOneRule ==
    /\ pFilename \in OneRuleNames
    /\ pChain \in OneRuleChains
    /\ pValid = <<>>
    /\ pOut = <<>>
    /\ pc = "edited"
    /\ InitEngine
    /\ AppIdle

SpecOneRule == InitOneRule /\ [][Preview]_vars

(***************************************************************************)
(* The renamer (class FileRenamer) on the engine.  Its signals are the     *)
(* rule list, the selected rule index, the file list, the rename results,  *)
(* the signals of each rule object and the name and path of each file      *)
(* object.  Its effects are the rule table, the file table and, per file   *)
(* row, the preview cell, the error cell and the row's highlighting; the   *)
(* other effects that only copy a signal into a property of a DOM element  *)
(* (check boxes, selects, inputs, name cells, the header check box) write  *)
(* no signal and are left out.  A handler runs to its end and the          *)
(* microtask it queued runs before the next handler.                       *)
(***************************************************************************)
RuleIds == 1..MaxRuleObjects
FileIds == 1..MaxObjects

null == -1
EmptyRuleRow == 0

ruleTableEffect == 1
fileTableEffect == 2
PreviewEffect(f) == fileTableEffect + f
ErrorEffect(f) == fileTableEffect + MaxObjects + f
RowEffect(f) == fileTableEffect + 2 * MaxObjects + f

ruleSignals == <<"ruleSignals", 0>>
selectedRuleIndex == <<"selectedRuleIndex", 0>>
fileSignals == <<"fileSignals", 0>>
renameResults == <<"renameResults", 0>>
RuleSignalNames == DOMAIN createRuleSignals
FileSignalNames == {"name", "path", "size", "selected"}
AppSignals ==
    {ruleSignals, selectedRuleIndex, fileSignals, renameResults}
        \cup (RuleSignalNames \X RuleIds) \cup (FileSignalNames \X FileIds)

\* the value each createSignal call is given; a file object's signals get
\* theirs when addFiles creates the object
InitialValue(s) ==
    CASE s = ruleSignals -> <<>>
      [] s = selectedRuleIndex -> null
      [] s = fileSignals -> [ref |-> 0, items |-> <<>>]
      [] s = renameResults -> [ref |-> 0, map |-> {}]
      [] s[1] \in {"name", "path"} -> <<>>
      [] s[1] = "size" -> 0
      [] s[1] = "selected" -> FALSE
      [] OTHER -> createRuleSignals[s[1]]

\* the types and search texts the model's user gives a rule
AppTypes == {"replace", "trim"}
AppSearches == {<<>>, <<"a">>}

\* the files the model's user adds: MaxFiles names, in directory `/'
AppFileNames == << <<"a", "b", ".", "a">>, <<"b", "a">>, <<"a", "a">> >>
AppLists == {SubSeq(AppFileNames, 1, MaxFiles)}

AppEngine ==
    [value |-> value, subscribers |-> subscribers, effects |-> effects,
     pendingEffects |-> pendingEffects, isFlushing |-> isFlushing,
     microtasks |-> microtasks, inFlush |-> FALSE,
     runs |-> runs, owed |-> owed, turnWrites |-> turnWrites, ran |-> <<>>,
     dom |-> dom]

\* the values of the signals of rule object r
RuleValues(g, r) == [n \in RuleSignalNames |-> g.value[<<n, r>>]]

\* the values of the signals of the rules of the chain, in chain order
ChainValues(g) ==
    LET rules == g.value[ruleSignals]
    IN [k \in 1..Len(rules) |-> RuleValues(g, rules[k])]

\* a subscription to the enabled signal alone
RuleReads_EnabledOnly(rv) == {"enabled"}

\* the signals getRulesFromSignals reads of a rule whose values are rv
RuleReads(rv) ==
    {"enabled"} \cup
        (IF ~rv.enabled THEN {}
         ELSE {"type"} \cup
              (CASE rv.type \in {"replace", "replace-case-insensitive"} ->
                       {"search", "replacement"}
                 [] rv.type = "regex" -> {"pattern", "replacement", "flags"}
                 [] rv.type = "trim" -> {"position", "count"}
                 [] rv.type \in {"prefix", "suffix"} -> {"text"}
                 [] OTHER -> {}))

\* the signals one call of getRulesFromSignals reads
getRulesFromSignalsReads(g) ==
    {ruleSignals} \cup
        UNION {{<<n, r>> : n \in RuleReads(RuleValues(g, r))} :
                  r \in Range(g.value[ruleSignals])}

\* the one member of a set of one member: an expression over h \in {g} is
\* evaluated for the state g once it is known
TheOne(S) == CHOOSE x \in S : TRUE

\* the function of createPreviewCell's effect, for file object f
previewFn(g, f) ==
    LET Body(h) ==
          LET originalName == h.value[<<"name", f>>]
              rules == getRulesFromSignals(ChainValues(h))
              previewName == applyRulesLocally(originalName, rules)
              g1 == ReadAll(h, {<<"name", f>>} \cup getRulesFromSignalsReads(h))
          IN [g1 EXCEPT !.dom.previewText[f] = previewName]
    IN TheOne({Body(h) : h \in {g}})

\* createPreviewCell(fileSignal): createEffect runs the effect once
createPreviewCell(g, f) == Pop(previewFn(Push(g, PreviewEffect(f)), f))

\* the content of an error cell
NoStatus == [icon |-> "", text |-> ""]
SuccessStatus == [icon |-> "success-icon", text |-> "Renamed successfully"]
ErrorStatus(error) ==
    [icon |-> "error-icon", text |-> IF error = "" THEN "Unknown error" ELSE error]

\* the function of createErrorCell's effect, for file object f
errorFn(g, f) ==
    LET Body(h) ==
          LET originalName == h.value[<<"name", f>>]
              resultsMap == h.value[renameResults].map
              found == {r \in resultsMap : r.originalName = originalName}
              status ==
                IF found = {} THEN NoStatus
                ELSE LET renameResult == CHOOSE r \in found : TRUE
                     IN IF ~renameResult.success
                        THEN ErrorStatus(renameResult.error)
                        ELSE SuccessStatus
          IN [ReadAll(h, {<<"name", f>>, renameResults})
                 EXCEPT !.dom.errorText[f] = status]
    IN TheOne({Body(h) : h \in {g}})

\* createErrorCell(fileSignal): createEffect runs the effect once
createErrorCell(g, f) == Pop(errorFn(Push(g, ErrorEffect(f)), f))

\* the function of the effect of a row: the row's class follows the flag
rowFn(g, f) ==
    LET Body(h) ==
          [read(h, <<"selected", f>>)
              EXCEPT !.dom.rowSelected[f] = h.value[<<"selected", f>>]]
    IN TheOne({Body(h) : h \in {g}})

\* the createEffect call of a row
createRowEffect(g, f) == Pop(rowFn(Push(g, RowEffect(f)), f))

\* the cells and the effect of the row of file object f
createRow(g, f) ==
    createRowEffect([createErrorCell(createPreviewCell(g, f), f)
                        EXCEPT !.dom.fileRows = Append(@, f)], f)

\* the loop of initializeFileTable's effect that rebuilds all rows
RECURSIVE RebuildRows(_, _, _)
RebuildRows(g, files, index) ==
    IF index > Len(files) THEN g
    ELSE RebuildRows(createRow(g, files[index]), files, index + 1)

\* the function of initializeFileTable's first effect
fileTableFn(g) ==
    LET files == g.value[fileSignals]
        g1 == read(g, fileSignals)
    IN IF Len(files.items) = 0
       THEN [g1 EXCEPT !.dom.fileRows = <<>>, !.dom.currentFilesRef = files.ref]
       ELSE IF g.dom.currentFilesRef = files.ref THEN g1
       ELSE RebuildRows([g1 EXCEPT !.dom.currentFilesRef = files.ref,
                                   !.dom.fileRows = <<>>],
                        files.items, 1)

IsRuleRow(row) == row # EmptyRuleRow

\* the function of initializeRuleTable's effect: the rows of the table body,
\* each bound to the rule object it was created for
ruleTableFn(g) ==
    LET rules == g.value[ruleSignals]
        n == Len(rules)
        extra == IF n = 0 THEN 1 ELSE 0
        rows0 == g.dom.tbodyRows
        rows1 == IF n > 0 THEN SelectSeq(rows0, IsRuleRow) ELSE rows0
        rows2 == IF Len(rows1) > n + extra THEN SubSeq(rows1, 1, n + extra) ELSE rows1
        first == Len(rows2) - extra
        added == SubSeq(rules, first + 1, n)
        rows3 == rows2 \o added
        rows4 == IF n = 0 /\ EmptyRuleRow \notin Range(rows3)
                 THEN Append(rows3, EmptyRuleRow) ELSE rows3
        g1 == read(g, ruleSignals)
        g2 == ReadAll(g1, {"enabled", "type"} \X Range(added))
    IN [g2 EXCEPT !.dom.tbodyRows = rows4]

\* the function of effect e
appFn(g, e) ==
    CASE e = ruleTableEffect -> ruleTableFn(g)
      [] e = fileTableEffect -> fileTableFn(g)
      [] e <= fileTableEffect + MaxObjects -> previewFn(g, e - fileTableEffect)
      [] e <= fileTableEffect + 2 * MaxObjects ->
            errorFn(g, e - fileTableEffect - MaxObjects)
      [] OTHER -> rowFn(g, e - fileTableEffect - 2 * MaxObjects)

\* the closure `effect' of createEffect, for the renamer's effects
appEffect(g, e) == Pop(appFn(Push(g, e), e))

\* flushEffects(): the whole microtask
RECURSIVE FlushLoop(_, _)
FlushLoop(g, i) ==
    IF i > Len(g.pendingEffects) THEN g
    ELSE FlushLoop(appEffect(g, g.pendingEffects[i]), i + 1)

flushEffects(g) ==
    [FlushLoop([g EXCEPT !.inFlush = TRUE], 1)
        EXCEPT !.pendingEffects = <<>>, !.isFlushing = FALSE, !.inFlush = FALSE]

\* what the main process has done before its first rename-files request
NoRequest(platform) ==
    [platform |-> platform, operations |-> <<>>, renamed |-> <<>>,
     calls |-> <<>>, results |-> <<>>]

\* the state after `new FileRenamer()': the rule table's effect has read the
\* rule list and found the row of the empty message in place, the file
\* table's effect has read the empty file list
InitApp ==
    /\ value = [s \in AppSignals |-> InitialValue(s)]
    /\ subscribers =
          [s \in AppSignals |->
              IF s = ruleSignals THEN <<ruleTableEffect>>
              ELSE IF s = fileSignals THEN <<fileTableEffect>>
              ELSE <<>>]
    /\ effects = <<>>
    /\ pendingEffects = <<>>
    /\ isFlushing = FALSE
    /\ microtasks = 0
    /\ flushIdx = 0
    /\ program = <<>>
    /\ runs = <<>>
    /\ owed = {}
    /\ turnWrites = <<>>
    /\ lastOp = "init"
    /\ ran = <<>>
    /\ dom = [tbodyRows |-> <<EmptyRuleRow>>, fileRows |-> <<>>,
              currentFilesRef |-> 0,
              previewText |-> [f \in FileIds |-> <<>>],
              errorText |-> [f \in FileIds |-> NoStatus],
              rowSelected |-> [f \in FileIds |-> FALSE]]
    /\ alloc = [rules |-> 0, files |-> 0, lists |-> 0, renames |-> 0]
    /\ adding = <<>>
    /\ inflight = <<>>
    /\ main = NoRequest("posix")
    /\ finished = <<>>
    /\ PureIdle

\* no microtask is queued: the next handler may run
Stable == microtasks = 0

\* the state a handler or a microtask leaves
AppStep(g) ==
    /\ value' = g.value
    /\ subscribers' = g.subscribers
    /\ effects' = g.effects
    /\ pendingEffects' = g.pendingEffects
    /\ isFlushing' = g.isFlushing
    /\ microtasks' = g.microtasks
    /\ runs' = g.runs
    /\ owed' = g.owed
    /\ turnWrites' = g.turnWrites
    /\ dom' = g.dom
    /\ UNCHANGED <<flushIdx, program, lastOp, ran, pureVars>>

\* the rule object the row at position p of the rule table was created for
RowRule(p) == dom.tbodyRows[p]
RuleRows == {p \in 1..Len(dom.tbodyRows) : IsRuleRow(dom.tbodyRows[p])}

\* addRule()
addRule ==
    /\ Stable
    /\ alloc.rules < MaxRules
    /\ AppStep(write(AppEngine, ruleSignals,
                     Append(value[ruleSignals], alloc.rules + 1)))
    /\ alloc' = [alloc EXCEPT !.rules = @ + 1]
    /\ UNCHANGED <<adding, inflight, main, finished>>

\* a click on the row at position p: setIndex(i)
RowClick(p) ==
    /\ Stable
    /\ p \in RuleRows
    /\ value[selectedRuleIndex] # p - 1
    /\ AppStep(write(AppEngine, selectedRuleIndex, p - 1))
    /\ UNCHANGED <<alloc, adding, inflight, main, finished>>

\* a click on the check box of the row at position p: the row's onclick,
\* then the check box's onchange
ToggleEnabled(p) ==
    /\ Stable
    /\ p \in RuleRows
    /\ LET g1 == write(AppEngine, selectedRuleIndex, p - 1)
       IN AppStep(write(g1, <<"enabled", RowRule(p)>>,
                        ~value[<<"enabled", RowRule(p)>>]))
    /\ UNCHANGED <<alloc, adding, inflight, main, finished>>

\* the type select of the row at position p changes to t
SetRuleType(p, t) ==
    /\ Stable
    /\ p \in RuleRows
    /\ value[<<"type", RowRule(p)>>] # t
    /\ AppStep(write(AppEngine, <<"type", RowRule(p)>>, t))
    /\ UNCHANGED <<alloc, adding, inflight, main, finished>>

\* the search input of the row at position p, shown for the replace kinds
SetRuleSearch(p, v) ==
    /\ Stable
    /\ p \in RuleRows
    /\ value[<<"type", RowRule(p)>>] \in {"replace", "replace-case-insensitive"}
    /\ value[<<"search", RowRule(p)>>] # v
    /\ AppStep(write(AppEngine, <<"search", RowRule(p)>>, v))
    /\ UNCHANGED <<alloc, adding, inflight, main, finished>>

\* a splice that takes the last element whatever idx is
Splice_Last(arr, idx) == SubSeq(arr, 1, Len(arr) - 1)

\* arr.splice(idx, 1) on a copy, idx zero-based
Splice(arr, idx) == SubSeq(arr, 1, idx) \o SubSeq(arr, idx + 2, Len(arr))

\* [arr[i], arr[i + 1]] = [arr[i + 1], arr[i]] on a copy, i zero-based
Swap(arr, i) == [arr EXCEPT ![i + 1] = arr[i + 2], ![i + 2] = arr[i + 1]]

\* removeSelectedRule(), from the state g
removeSelectedRuleOf(g) ==
    LET idx == g.value[selectedRuleIndex]
        rules == g.value[ruleSignals]
    IN IF idx = null \/ idx < 0 \/ idx >= Len(rules) THEN g
       ELSE write(write(g, ruleSignals, Splice(rules, idx)),
                  selectedRuleIndex, null)

removeSelectedRule ==
    /\ Stable
    /\ AppStep(removeSelectedRuleOf(AppEngine))
    /\ UNCHANGED <<alloc, adding, inflight, main, finished>>

\* a moveRuleUp() that swaps and leaves the cursor where it was
moveRuleUpOf_CursorStays(g) ==
    LET idx == g.value[selectedRuleIndex]
        rules == g.value[ruleSignals]
    IN IF idx = null \/ idx <= 0 \/ idx >= Len(rules) THEN g
       ELSE write(g, ruleSignals, Swap(rules, idx - 1))

\* moveRuleUp(), from the state g
moveRuleUpOf(g) ==
    LET idx == g.value[selectedRuleIndex]
        rules == g.value[ruleSignals]
    IN IF idx = null \/ idx <= 0 \/ idx >= Len(rules) THEN g
       ELSE write(write(g, ruleSignals, Swap(rules, idx - 1)),
                  selectedRuleIndex, idx - 1)

moveRuleUp ==
    /\ Stable
    /\ AppStep(moveRuleUpOf(AppEngine))
    /\ UNCHANGED <<alloc, adding, inflight, main, finished>>

\* moveRuleDown(), from the state g
moveRuleDownOf(g) ==
    LET idx == g.value[selectedRuleIndex]
        rules == g.value[ruleSignals]
    IN IF idx = null \/ idx < 0 \/ idx >= Len(rules) - 1 THEN g
       ELSE write(write(g, ruleSignals, Swap(rules, idx)),
                  selectedRuleIndex, idx + 1)

moveRuleDown ==
    /\ Stable
    /\ AppStep(moveRuleDownOf(AppEngine))
    /\ UNCHANGED <<alloc, adding, inflight, main, finished>>

\* a fresh array: a reference no earlier value of the file list has
NewArray(items) == [ref |-> 1 - value[fileSignals].ref, items |-> items]

\* new Map(): a reference the value of the rename results has not
NewMap(g, map) == [ref |-> 1 - g.value[renameResults].ref, map |-> map]

\* a File object of a drop or of the file input that is a plain file
PlainFile(name) ==
    [name |-> name, path |-> <<"/">> \o name, size |-> Len(name),
     kind |-> "file", children |-> <<>>]

\* what the collaborators of addFiles do for each source item: whether
\* getPathForFile returns, and whether the two requests to the main process
\* resolve
Answers == {"resolves", "isDirectoryRejects", "readFolderContentsRejects"}
NoFailure(items) ==
    [i \in 1..Len(items) |-> [resolved |-> TRUE, answer |-> "resolves"]]

\* the answer of the main process to is-directory
isDirectory(item, filePath) == filePath # <<>> /\ item.kind = "dir"

\* the answer of the main process to read-folder-contents: the files of the
\* folder, not its subdirectories
readFolderContents(item) == item.children

\* the argument of createFileSignals
FileInfo(name, path, size) == [name |-> name, path |-> path, size |-> size]

\* the body of the loop of addFiles for one source item: what it pushes
NewFilesOfItem(item, e) ==
    LET filePath == IF e.resolved THEN item.path ELSE <<>>
    IN IF e.answer = "isDirectoryRejects"
       THEN <<FileInfo(item.name, filePath, item.size)>>
       ELSE IF isDirectory(item, filePath)
            THEN IF e.answer = "readFolderContentsRejects"
                 THEN <<FileInfo(item.name, filePath, item.size)>>
                 ELSE [j \in 1..Len(readFolderContents(item)) |->
                          FileInfo(readFolderContents(item)[j].name,
                                   readFolderContents(item)[j].path,
                                   readFolderContents(item)[j].size)]
            ELSE <<FileInfo(item.name, filePath, item.size)>>

\* the loop of addFiles from item i on
RECURSIVE NewFilesOf(_, _, _, _)
NewFilesOf(items, env, i, newFiles) ==
    IF i > Len(items) THEN newFiles
    ELSE NewFilesOf(items, env, i + 1, newFiles \o NewFilesOfItem(items[i], env[i]))

\* addFiles(files), up to its first await; without a source item it has none
addFilesStart(items, env) ==
    /\ Stable
    /\ LET g1 == write(AppEngine, renameResults, NewMap(AppEngine, {}))
       IN IF items = <<>>
          THEN /\ AppStep(write(g1, fileSignals, NewArray(<<>>)))
               /\ adding' = adding
          ELSE /\ AppStep(g1)
               /\ adding' = Append(adding, [items |-> items, env |-> env,
                                            call |-> alloc.lists + 1])
    /\ alloc' = [alloc EXCEPT !.lists = @ + 1]
    /\ UNCHANGED <<inflight, main, finished>>

\* addFiles(files), from its last await on: the file objects are created
\* and the list is replaced
addFilesDone(k) ==
    /\ Stable
    /\ k \in 1..Len(adding)
    /\ LET infos == NewFilesOf(adding[k].items, adding[k].env, 1, <<>>)
           newFiles == [i \in 1..Len(infos) |-> alloc.files + i]
           created ==
             [AppEngine EXCEPT !.value =
                 [s \in AppSignals |->
                     IF s[1] \in FileSignalNames /\ s[2] \in Range(newFiles)
                     THEN (IF s[1] = "selected" THEN FALSE
                           ELSE infos[s[2] - alloc.files][s[1]])
                     ELSE @[s]]]
       IN /\ alloc.files + Len(infos) <= MaxObjects
          /\ AppStep(write(created, fileSignals, NewArray(newFiles)))
          /\ alloc' = [alloc EXCEPT !.files = @ + Len(infos)]
    /\ adding' = Splice(adding, k - 1)
    /\ UNCHANGED <<inflight, main, finished>>

\* the operations of renameFiles: one per file of the list, in list order
allOperationsOf(g) ==
    LET files == g.value[fileSignals].items
        rules == getRulesFromSignals(ChainValues(g))
    IN [k \in 1..Len(files) |->
           [originalPath |-> g.value[<<"path", files[k]>>],
            originalName |-> g.value[<<"name", files[k]>>],
            newName |-> applyRulesLocally(g.value[<<"name", files[k]>>], rules)]]

\* a batch that holds every operation
renameOperationsOf_All(allOperations) == allOperations

\* allOperations.filter(op => op.originalName !== op.newName)
renameOperationsOf(allOperations) ==
    LET Changed(op) == op.originalName # op.newName
    IN SelectSeq(allOperations, Changed)

\* allOperations.filter(op => op.originalName === op.newName).map(...)
unchangedResultsOf(allOperations) ==
    LET Unchanged(op) == op.originalName = op.newName
        unchanged == SelectSeq(allOperations, Unchanged)
    IN [k \in 1..Len(unchanged) |->
           [originalName |-> unchanged[k].originalName,
            newName |-> unchanged[k].originalName,
            success |-> TRUE, unchanged |-> TRUE, path |-> <<>>, error |-> ""]]

\* renameFiles() when it returns before its await: no file, no valid rule or
\* no name to change
renameFilesReturn ==
    /\ Stable
    /\ alloc.renames < MaxRenames
    /\ \/ Len(value[fileSignals].items) = 0
       \/ Len(getRulesFromSignals(ChainValues(AppEngine))) = 0
       \/ Len(renameOperationsOf(allOperationsOf(AppEngine))) = 0
    /\ alloc' = [alloc EXCEPT !.renames = @ + 1]
    /\ UNCHANGED <<engineVars, obsVars, pureVars, dom, adding, inflight, main, finished>>

\* a renameFiles() that sends its batch without any of the three tests
renameFilesStart_Unchecked ==
    /\ Stable
    /\ alloc.renames < MaxRenames
    /\ inflight' = Append(inflight,
          [files |-> value[fileSignals].items,
           allOperations |-> allOperationsOf(AppEngine),
           operations |-> renameOperationsOf(allOperationsOf(AppEngine))])
    /\ alloc' = [alloc EXCEPT !.renames = @ + 1]
    /\ UNCHANGED <<engineVars, obsVars, pureVars, dom, adding, main, finished>>

\* renameFiles(), up to its await: allOperations stays in the closure, the
\* batch goes to the main process
renameFilesStart ==
    /\ Stable
    /\ alloc.renames < MaxRenames
    /\ Len(value[fileSignals].items) # 0
    /\ Len(getRulesFromSignals(ChainValues(AppEngine))) # 0
    /\ Len(renameOperationsOf(allOperationsOf(AppEngine))) # 0
    /\ inflight' = Append(inflight,
          [files |-> value[fileSignals].items,
           allOperations |-> allOperationsOf(AppEngine),
           operations |-> renameOperationsOf(allOperationsOf(AppEngine))])
    /\ alloc' = [alloc EXCEPT !.renames = @ + 1]
    /\ UNCHANGED <<engineVars, obsVars, pureVars, dom, adding, main, finished>>

\* the separators of the path module of the platform and the one it writes
PathSeps(platform) == IF platform = "win32" THEN {"/", "\\"} ELSE {"/"}
PathSep(platform) == IF platform = "win32" THEN "\\" ELSE "/"

\* path.dirname(p), for a path without drive letter or UNC prefix
dirname(platform, p) ==
    LET seps == PathSeps(platform)
        n == Len(p)
        ends == {i \in 2..n : p[i] \in seps /\ \E j \in (i + 1)..n : p[j] \notin seps}
    IN IF n = 0 THEN <<".">>
       ELSE IF ends = {} THEN (IF p[1] \in seps THEN <<p[1]>> ELSE <<".">>)
       ELSE LET end == (CHOOSE i \in ends : \A j \in ends : j <= i) - 1
            IN IF platform = "posix" /\ p[1] \in seps /\ end = 1
               THEN <<"/", "/">>
               ELSE SubSeq(p, 1, end)

\* the segments between the separators of a path
RECURSIVE Segments(_, _)
Segments(p, seps) ==
    IF \E i \in 1..Len(p) : p[i] \in seps
    THEN LET i == CHOOSE x \in 1..Len(p) :
                     p[x] \in seps /\ \A y \in 1..(x - 1) : p[y] \notin seps
         IN <<SubSeq(p, 1, i - 1)>> \o Segments(SubSeq(p, i + 1, Len(p)), seps)
    ELSE <<p>>

\* normalizeString of the path module: `.' and empty segments are dropped,
\* `..' takes the segment before it away
RECURSIVE normalizeString(_, _, _, _)
normalizeString(segs, k, res, allowAboveRoot) ==
    IF k > Len(segs) THEN res
    ELSE IF segs[k] = <<>> \/ segs[k] = <<".">>
         THEN normalizeString(segs, k + 1, res, allowAboveRoot)
    ELSE IF segs[k] = <<".", ".">>
         THEN IF res # <<>> /\ res[Len(res)] # <<".", ".">>
              THEN normalizeString(segs, k + 1, SubSeq(res, 1, Len(res) - 1),
                                   allowAboveRoot)
              ELSE IF allowAboveRoot
                   THEN normalizeString(segs, k + 1, Append(res, segs[k]),
                                        allowAboveRoot)
                   ELSE normalizeString(segs, k + 1, res, allowAboveRoot)
    ELSE normalizeString(segs, k + 1, Append(res, segs[k]), allowAboveRoot)

\* path.normalize(p), for a path without drive letter or UNC prefix
normalize(platform, p) ==
    IF Len(p) = 0 THEN <<".">>
    ELSE LET seps == PathSeps(platform)
             sep == <<PathSep(platform)>>
             isAbsolute == p[1] \in seps
             trailingSeparator == p[Len(p)] \in seps
             segs == normalizeString(Segments(p, seps), 1, <<>>, ~isAbsolute)
             tail == join(segs, sep)
             tail1 == IF tail = <<>> /\ ~isAbsolute THEN <<".">> ELSE tail
             tail2 == IF tail1 # <<>> /\ trailingSeparator THEN tail1 \o sep ELSE tail1
         IN IF isAbsolute THEN sep \o tail2 ELSE tail2

\* path.join(a, b)
pathJoin(platform, a, b) ==
    IF a = <<>> /\ b = <<>> THEN <<".">>
    ELSE IF a = <<>> THEN normalize(platform, b)
    ELSE IF b = <<>> THEN normalize(platform, a)
    ELSE normalize(platform, a \o <<PathSep(platform)>> \o b)

\* the error texts of the results
NoPathError ==
    "No valid file path provided (drag-and-drop files not supported for renaming)"
FsError == "ENOENT: no such file or directory, rename"

\* the body of the handler's loop that tests the path for emptiness only
HandleOperation_EmptyOnly(platform, operation, k, fsOk) ==
    IF operation.originalPath = <<>>
    THEN [calls |-> <<>>,
          result |-> [success |-> FALSE, originalName |-> operation.originalName,
                      newName |-> <<>>, path |-> <<>>, unchanged |-> FALSE,
                      error |-> NoPathError]]
    ELSE LET newPath == pathJoin(platform, dirname(platform, operation.originalPath),
                                 operation.newName)
         IN [calls |-> <<[op |-> k, from |-> operation.originalPath, to |-> newPath]>>,
             result |->
                IF fsOk
                THEN [success |-> TRUE, originalName |-> operation.originalName,
                      newName |-> operation.newName, path |-> newPath,
                      unchanged |-> FALSE, error |-> ""]
                ELSE [success |-> FALSE, originalName |-> operation.originalName,
                      newName |-> <<>>, path |-> <<>>, unchanged |-> FALSE,
                      error |-> FsError]]

\* the body of the handler's loop for operation k: the call of fs.renameSync
\* it makes and the result it pushes; fsOk tells whether fs.renameSync returns
HandleOperation(platform, operation, k, fsOk) ==
    IF operation.originalPath = <<>> \/ trim(operation.originalPath) = <<>>
    THEN [calls |-> <<>>,
          result |-> [success |-> FALSE, originalName |-> operation.originalName,
                      newName |-> <<>>, path |-> <<>>, unchanged |-> FALSE,
                      error |-> NoPathError]]
    ELSE LET newPath == pathJoin(platform, dirname(platform, operation.originalPath),
                                 operation.newName)
         IN [calls |-> <<[op |-> k, from |-> operation.originalPath, to |-> newPath]>>,
             result |->
                IF fsOk
                THEN [success |-> TRUE, originalName |-> operation.originalName,
                      newName |-> operation.newName, path |-> newPath,
                      unchanged |-> FALSE, error |-> ""]
                ELSE [success |-> FALSE, originalName |-> operation.originalName,
                      newName |-> <<>>, path |-> <<>>, unchanged |-> FALSE,
                      error |-> FsError]]

\* a handler whose loop ends at the first operation that fails
RECURSIVE renameFilesMain_StopOnFailure(_, _, _, _, _)
renameFilesMain_StopOnFailure(platform, operations, renamed, k, done) ==
    IF k > Len(operations) THEN done
    ELSE LET h == HandleOperation(platform, operations[k], k, renamed[k])
             next == [calls |-> done.calls \o h.calls,
                      results |-> Append(done.results, h.result)]
         IN IF h.result.success
            THEN renameFilesMain_StopOnFailure(platform, operations, renamed, k + 1, next)
            ELSE next

\* the rename-files handler of the main process from operation k on: renamed[k]
\* tells whether fs.renameSync succeeds for operation k
RECURSIVE renameFilesMain(_, _, _, _, _)
renameFilesMain(platform, operations, renamed, k, done) ==
    IF k > Len(operations) THEN done
    ELSE LET h == HandleOperation(platform, operations[k], k, renamed[k])
         IN renameFilesMain(platform, operations, renamed, k + 1,
                            [calls |-> done.calls \o h.calls,
                             results |-> Append(done.results, h.result)])

\* new Map filled by results.forEach: the last result of a name stays
ResultsMap(results) ==
    {results[k] : k \in {i \in 1..Len(results) :
        \A j \in (i + 1)..Len(results) :
            results[j].originalName # results[i].originalName}}

\* a path rewritten at its last slash only
newPathOf_SlashOnly(originalPath, newName) ==
    LET lastSeparatorIndex == lastIndexOf(originalPath, "/")
    IN IF lastSeparatorIndex >= 0
       THEN substring(originalPath, 0, lastSeparatorIndex + 1) \o newName
       ELSE newName

\* the path displayResults gives a renamed file
newPathOf(originalPath, newName) ==
    LET lastSlashIndex == lastIndexOf(originalPath, "/")
        lastBackslashIndex == lastIndexOf(originalPath, "\\")
        lastSeparatorIndex == Max(lastSlashIndex, lastBackslashIndex)
    IN IF lastSeparatorIndex >= 0
       THEN substring(originalPath, 0, lastSeparatorIndex + 1) \o newName
       ELSE newName

\* the loop of displayResults over the files of the list
RECURSIVE UpdateNames(_, _, _, _)
UpdateNames(g, files, k, map) ==
    IF k > Len(files) THEN g
    ELSE LET f == files[k]
             originalName == g.value[<<"name", f>>]
             found == {r \in map : r.originalName = originalName}
         IN IF found = {} THEN UpdateNames(g, files, k + 1, map)
            ELSE LET renameResult == CHOOSE r \in found : TRUE
                     originalPath == g.value[<<"path", f>>]
                 IN IF renameResult.success /\ renameResult.newName # <<>>
                    THEN UpdateNames(
                            write(write(g, <<"name", f>>, renameResult.newName),
                                  <<"path", f>>,
                                  newPathOf(originalPath, renameResult.newName)),
                            files, k + 1, map)
                    ELSE UpdateNames(g, files, k + 1, map)

\* displayResults(results)
displayResults(g, results) ==
    LET g1 == write(g, renameResults, NewMap(g, ResultsMap(results)))
    IN IF \E k \in 1..Len(results) : results[k].success
       THEN UpdateNames(g1, g1.value[fileSignals].items, 1, ResultsMap(results))
       ELSE g1

\* the main process handles the batch and renameFiles() goes on from its await
renameFilesDone(renamed) ==
    /\ Stable
    /\ inflight # <<>>
    /\ DOMAIN renamed = 1..Len(Head(inflight).operations)
    /\ LET handled == renameFilesMain(main.platform, Head(inflight).operations,
                                      renamed, 1, [calls |-> <<>>, results |-> <<>>])
       IN /\ main' = [platform |-> main.platform,
                      operations |-> Head(inflight).operations,
                      renamed |-> renamed,
                      calls |-> handled.calls,
                      results |-> handled.results]
          /\ AppStep(displayResults(AppEngine,
                        handled.results
                            \o unchangedResultsOf(Head(inflight).allOperations)))
    /\ finished' = Append(finished,
          [allOperations |-> Head(inflight).allOperations,
           results |-> main'.results
                          \o unchangedResultsOf(Head(inflight).allOperations)])
    /\ inflight' = Tail(inflight)
    /\ UNCHANGED <<alloc, adding>>

\* the microtask queued by scheduleEffect
Flush ==
    /\ microtasks > 0
    /\ AppStep(flushEffects([AppEngine EXCEPT !.microtasks = @ - 1]))
    /\ UNCHANGED <<alloc, adding, inflight, main, finished>>

NextApp ==
    \/ addRule
    \/ \E p \in 1..(MaxRules + 1) : RowClick(p)
    \/ \E p \in 1..(MaxRules + 1) : ToggleEnabled(p)
    \/ \E p \in 1..(MaxRules + 1), t \in AppTypes : SetRuleType(p, t)
    \/ \E p \in 1..(MaxRules + 1), v \in AppSearches : SetRuleSearch(p, v)
    \/ removeSelectedRule
    \/ moveRuleUp
    \/ moveRuleDown
    \/ /\ alloc.lists < MaxLists
       /\ \E names \in AppLists :
             addFilesStart([i \in 1..Len(names) |-> PlainFile(names[i])],
                           NoFailure(names))
    \/ \E k \in 1..MaxLists : addFilesDone(k)
    \/ renameFilesStart
    \/ \E renamed \in UNION {[1..n -> BOOLEAN] : n \in 1..MaxFiles} :
          renameFilesDone(renamed)
    \/ Flush

SpecApp == InitApp /\ [][NextApp]_vars

(***************************************************************************)
(* The selection of files: the three buttons and the clicks on a row.      *)
(***************************************************************************)
\* files.forEach((file) => setSelected(selected)), from position k on
RECURSIVE SetSelectedFrom(_, _, _, _)
SetSelectedFrom(g, files, k, selected) ==
    IF k > Len(files) THEN g
    ELSE SetSelectedFrom(write(g, <<"selected", files[k]>>, selected),
                         files, k + 1, selected)

\* files.forEach((file) => setSelected(!getSelected())), from position k on
RECURSIVE InvertFrom(_, _, _)
InvertFrom(g, files, k) ==
    IF k > Len(files) THEN g
    ELSE InvertFrom(write(g, <<"selected", files[k]>>,
                          ~g.value[<<"selected", files[k]>>]),
                    files, k + 1)

\* the indices, zero-based, of the selected files
selectedIndices(g, files) ==
    {i \in 0..(Len(files) - 1) : g.value[<<"selected", files[i + 1]>>]}

\* for (let i = start; i <= end; i++) setSelected(true)
RECURSIVE SelectRange(_, _, _, _)
SelectRange(g, files, i, end) ==
    IF i > end THEN g
    ELSE SelectRange(write(g, <<"selected", files[i + 1]>>, TRUE), files, i + 1, end)

\* a selectAllFiles that also empties the results table, as clearAllFiles does
selectAllFiles_ClearsResults ==
    /\ Stable
    /\ AppStep(write(SetSelectedFrom(AppEngine, value[fileSignals].items, 1, TRUE),
                     renameResults, NewMap(AppEngine, {})))
    /\ UNCHANGED <<alloc, adding, inflight, main, finished>>

\* selectAllFiles()
selectAllFiles ==
    /\ Stable
    /\ AppStep(SetSelectedFrom(AppEngine, value[fileSignals].items, 1, TRUE))
    /\ UNCHANGED <<alloc, adding, inflight, main, finished>>

\* deselectAllFiles()
deselectAllFiles ==
    /\ Stable
    /\ AppStep(SetSelectedFrom(AppEngine, value[fileSignals].items, 1, FALSE))
    /\ UNCHANGED <<alloc, adding, inflight, main, finished>>

\* invertSelection()
invertSelection ==
    /\ Stable
    /\ AppStep(InvertFrom(AppEngine, value[fileSignals].items, 1))
    /\ UNCHANGED <<alloc, adding, inflight, main, finished>>

\* the keys held during a click: shiftKey, else ctrlKey or metaKey, else none
Modifiers == {"shift", "ctrl", "none"}

\* handleFileRowClick(e, index): a click on the row created at position index
handleFileRowClick(modifier, index) ==
    /\ Stable
    /\ index \in 0..(Len(dom.fileRows) - 1)
    /\ LET files == value[fileSignals].items
           selected == selectedIndices(AppEngine, files)
           firstSelected == CHOOSE i \in selected : \A j \in selected : i <= j
           cleared == SetSelectedFrom(AppEngine, files, 1, FALSE)
       IN IF modifier = "shift"
          THEN IF selected # {}
               THEN AppStep(SelectRange(cleared, files, Min(index, firstSelected),
                                        Max(index, firstSelected)))
               ELSE AppStep(write(AppEngine, <<"selected", files[index + 1]>>, TRUE))
          ELSE IF modifier = "ctrl"
               THEN AppStep(write(AppEngine, <<"selected", files[index + 1]>>,
                                  ~value[<<"selected", files[index + 1]>>]))
               ELSE AppStep(write(cleared, <<"selected", files[index + 1]>>, TRUE))
    /\ UNCHANGED <<alloc, adding, inflight, main, finished>>

\* clearAllFiles()
clearAllFiles ==
    /\ Stable
    /\ LET g1 == write(AppEngine, fileSignals, NewArray(<<>>))
       IN AppStep(write(g1, renameResults, NewMap(g1, {})))
    /\ UNCHANGED <<alloc, adding, inflight, main, finished>>

\* removeSelectedFiles()
removeSelectedFiles ==
    /\ Stable
    /\ LET files == value[fileSignals].items
           NotSelected(f) == ~value[<<"selected", f>>]
       IN AppStep(write(AppEngine, fileSignals,
                        NewArray(SelectSeq(files, NotSelected))))
    /\ UNCHANGED <<alloc, adding, inflight, main, finished>>

(***************************************************************************)
(* The calls of addFiles: drops of plain files and of a folder, calls that *)
(* overlap, a file whose path getPathForFile does not give and requests to *)
(* the main process that are rejected.                                     *)
(***************************************************************************)
MaxAdds == 2

FolderItem ==
    [name |-> <<"d">>, path |-> <<"/", "d">>, size |-> 0, kind |-> "dir",
     children |-> <<FileInfo(<<"x">>, <<"/", "d", "/", "x">>, 1),
                    FileInfo(<<"y">>, <<"/", "d", "/", "y">>, 2)>>]

SourceLists ==
    {<<>>, <<PlainFile(<<"a">>)>>, <<FolderItem>>,
     <<PlainFile(<<"a">>), FolderItem>>, <<FolderItem, PlainFile(<<"a">>)>>}

Environments(items) ==
    [1..Len(items) -> [resolved : BOOLEAN, answer : Answers]]

NextAdd ==
    \/ /\ alloc.lists < MaxAdds
       /\ \E items \in SourceLists :
             \E env \in Environments(items) : addFilesStart(items, env)
    \/ \E k \in 1..MaxAdds : addFilesDone(k)
    \/ Flush

SpecAdd == InitApp /\ [][NextAdd]_vars

(***************************************************************************)
(* The renamer with a list of files and a chain of rules in place, on each *)
(* platform of the main process: the runs of renameFiles.  Windows paths   *)
(* are written without their drive.                                        *)
(***************************************************************************)
RenamePlatforms == {"posix", "win32"}

\* the files the user adds: two files of one name in two directories, a file
\* the rules leave alone, a file in the root directory, files whose path
\* could not be resolved
RenameEntries(platform) ==
    IF platform = "posix"
    THEN {[name |-> <<"a">>, path |-> <<"/", "d", "/", "a">>],
          [name |-> <<"a">>, path |-> <<"/", "e", "/", "a">>],
          [name |-> <<"c">>, path |-> <<"/", "d", "/", "c">>],
          [name |-> <<"a", ".", "t">>, path |-> <<"/", "a", ".", "t">>],
          [name |-> <<"a">>, path |-> <<>>],
          [name |-> <<"c">>, path |-> <<>>],
          [name |-> <<"a">>, path |-> <<" ">>]}
    ELSE {[name |-> <<"a">>, path |-> <<"\\", "d", "\\", "a">>],
          [name |-> <<"a">>, path |-> <<"\\", "d", "/", "e", "\\", "a">>],
          [name |-> <<"c">>, path |-> <<"\\", "d", "\\", "c">>]}

RenameLists(platform) ==
    UNION {[1..n -> RenameEntries(platform)] : n \in 0..MaxFiles}

\* the chains the user builds: none, a rule that is not valid, a replace that
\* leaves some names alone, texts with a separator or `..' in them
RenameChains ==
    {<<>>,
     <<Rule("prefix")>>,
     <<[Rule("replace") EXCEPT !.search = <<"a">>, !.replacement = <<"b">>]>>,
     <<[Rule("prefix") EXCEPT !.text = <<"x", "/">>]>>,
     <<[Rule("prefix") EXCEPT !.text = <<".", ".", "/">>]>>,
     <<[Rule("replace") EXCEPT !.search = <<"a">>, !.replacement = <<"b">>],
       [Rule("suffix") EXCEPT !.text = <<"\\", "x">>]>>}

\* the signals after the handlers that built the chain and the list, the
\* effects of the two tables pending
Setup(entries, chain) ==
    [value |->
        [s \in AppSignals |->
            CASE s = ruleSignals -> [k \in 1..Len(chain) |-> k]
              [] s = fileSignals ->
                    [ref |-> 1, items |-> [k \in 1..Len(entries) |-> k]]
              [] s[1] \in {"name", "path"} /\ s[2] \in 1..Len(entries) ->
                    entries[s[2]][s[1]]
              [] s[1] \in RuleSignalNames /\ s[2] \in 1..Len(chain) ->
                    chain[s[2]][s[1]]
              [] OTHER -> InitialValue(s)],
     subscribers |->
        [s \in AppSignals |->
            IF s = ruleSignals THEN <<ruleTableEffect>>
            ELSE IF s = fileSignals THEN <<fileTableEffect>>
            ELSE <<>>],
     effects |-> <<>>,
     pendingEffects |-> <<ruleTableEffect, fileTableEffect>>,
     isFlushing |-> TRUE, microtasks |-> 0, inFlush |-> FALSE,
     runs |-> <<>>, owed |-> {}, turnWrites |-> <<>>, ran |-> <<>>,
     dom |-> [tbodyRows |-> <<EmptyRuleRow>>, fileRows |-> <<>>,
              currentFilesRef |-> 0,
              previewText |-> [f \in FileIds |-> <<>>],
              errorText |-> [f \in FileIds |-> NoStatus],
              rowSelected |-> [f \in FileIds |-> FALSE]]]

\* the variables hold the state g
AppState(g) ==
    /\ value = g.value
    /\ subscribers = g.subscribers
    /\ effects = g.effects
    /\ pendingEffects = g.pendingEffects
    /\ isFlushing = g.isFlushing
    /\ microtasks = g.microtasks
    /\ runs = g.runs
    /\ owed = g.owed
    /\ turnWrites = g.turnWrites
    /\ dom = g.dom

\* the state after the flush that follows the chain's and the list's handlers
InitRename ==
    \E platform \in RenamePlatforms :
        \E entries \in RenameLists(platform), chain \in RenameChains :
            /\ AppState(flushEffects(Setup(entries, chain)))
            /\ flushIdx = 0
            /\ program = <<>>
            /\ lastOp = "init"
            /\ ran = <<>>
            /\ alloc = [rules |-> Len(chain), files |-> Len(entries),
                        lists |-> MaxLists, renames |-> 0]
            /\ adding = <<>>
            /\ inflight = <<>>
            /\ main = NoRequest(platform)
            /\ finished = <<>>
            /\ PureIdle

NextRename ==
    \/ renameFilesReturn
    \/ renameFilesStart
    \/ \E renamed \in UNION {[1..n -> BOOLEAN] : n \in 1..MaxFiles} :
          renameFilesDone(renamed)
    \/ Flush

SpecRename == InitRename /\ [][NextRename]_vars

\* the same lists and chains, with the selection of files
NextSelect ==
    \/ selectAllFiles
    \/ deselectAllFiles
    \/ invertSelection
    \/ \E modifier \in Modifiers, index \in 0..(MaxFiles - 1) :
          handleFileRowClick(modifier, index)
    \/ renameFilesReturn
    \/ renameFilesStart
    \/ \E renamed \in UNION {[1..n -> BOOLEAN] : n \in 1..MaxFiles} :
          renameFilesDone(renamed)
    \/ Flush

SpecSelect == InitRename /\ [][NextSelect]_vars

(***************************************************************************)
(* The file list changes while a batch is with the main process: files are *)
(* added (one of the name `a', as a file of the batch has), the list is    *)
(* cleared, selected files are removed.                                    *)
(***************************************************************************)
OverlapLists ==
    {<<[name |-> <<"a">>, path |-> <<"/", "d", "/", "a">>]>>,
     <<[name |-> <<"a">>, path |-> <<"/", "d", "/", "a">>],
       [name |-> <<"c">>, path |-> <<"/", "d", "/", "c">>]>>}
OverlapChain ==
    <<[Rule("replace") EXCEPT !.search = <<"a">>, !.replacement = <<"b">>]>>
OverlapSources == {<<PlainFile(<<"a">>)>>, <<PlainFile(<<"c">>)>>}

InitOverlap ==
    \E entries \in OverlapLists :
        /\ AppState(flushEffects(Setup(entries, OverlapChain)))
        /\ flushIdx = 0
        /\ program = <<>>
        /\ lastOp = "init"
        /\ ran = <<>>
        /\ alloc = [rules |-> 1, files |-> Len(entries),
                    lists |-> 0, renames |-> 0]
        /\ adding = <<>>
        /\ inflight = <<>>
        /\ main = NoRequest("posix")
        /\ finished = <<>>
        /\ PureIdle

NextOverlap ==
    \/ /\ alloc.lists < MaxLists
       /\ \E items \in OverlapSources : addFilesStart(items, NoFailure(items))
    \/ addFilesDone(1)
    \/ clearAllFiles
    \/ selectAllFiles
    \/ \E index \in 0..(MaxFiles - 1) : handleFileRowClick("ctrl", index)
    \/ removeSelectedFiles
    \/ renameFilesStart
    \/ \E renamed \in UNION {[1..n -> BOOLEAN] : n \in 1..MaxFiles} :
          renameFilesDone(renamed)
    \/ Flush

SpecOverlap == InitOverlap /\ [][NextOverlap]_vars

(***************************************************************************)
(* The buttons of the rule table, from chains of up to MaxRuleObjects      *)
(* rules.                                                                  *)
(***************************************************************************)
RuleChains ==
    {<<>>,
     <<Rule("trim")>>,
     <<Rule("trim"), Disabled(Rule("trim"))>>,
     <<Rule("trim"), Rule("prefix"), Disabled(Rule("trim"))>>}

InitRules ==
    \E chain \in RuleChains :
        /\ AppState(flushEffects(Setup(<<>>, chain)))
        /\ flushIdx = 0
        /\ program = <<>>
        /\ lastOp = "init"
        /\ ran = <<>>
        /\ alloc = [rules |-> Len(chain), files |-> 0,
                    lists |-> MaxLists, renames |-> 0]
        /\ adding = <<>>
        /\ inflight = <<>>
        /\ main = NoRequest("posix")
        /\ finished = <<>>
        /\ PureIdle

NextRules ==
    \/ addRule
    \/ \E p \in 1..MaxRuleObjects : RowClick(p)
    \/ \E p \in 1..MaxRuleObjects : ToggleEnabled(p)
    \/ removeSelectedRule
    \/ moveRuleUp
    \/ moveRuleDown
    \/ Flush

SpecRules == InitRules /\ [][NextRules]_vars

(***************************************************************************)
(* An effect that writes a signal it reads: count is signal 1, step is     *)
(* signal 2 and holds 1 throughout, and the effect's function is           *)
(* () => setCount((count() + step()) % (MaxValue + 1)), which writes a     *)
(* value other than the one it read on every run.  The other effects only  *)
(* read, and handlers write count.                                         *)
(***************************************************************************)
count == 1
step == 2
SelfWriter == [reads |-> {count, step}, target |-> count]
LoopPrograms ==
    {SelfWriter} \cup {[reads |-> {s}, target |-> NoTarget] : s \in Signals}

InitLoop ==
    /\ value = [s \in Signals |-> IF s = step THEN 1 ELSE 0]
    /\ subscribers = [s \in Signals |-> <<>>]
    /\ effects = <<>>
    /\ pendingEffects = <<>>
    /\ isFlushing = FALSE
    /\ microtasks = 0
    /\ flushIdx = 0
    /\ program = [e \in Effects |-> NoProgram]
    /\ runs = [e \in Effects |-> 0]
    /\ owed = {}
    /\ turnWrites = [e \in Effects |-> 0]
    /\ lastOp = "init"
    /\ ran = <<>>
    /\ PureIdle
    /\ AppIdle

NextLoop ==
    \/ \E e \in Effects, p \in LoopPrograms : CreateEffect(e, p)
    \/ \E v \in Values : Write(count, v)
    \/ FlushStart
    \/ FlushRun
    \/ FlushEnd

SpecLoop == InitLoop /\ [][NextLoop]_vars

(***************************************************************************)
(* Effects whose function throws: () => { if (s()) throw ... } for a       *)
(* signal s, next to effects that read or copy a signal.  The handlers     *)
(* write and read the signals.                                             *)
(***************************************************************************)
ThrowPrograms ==
    {[reads |-> {s}, target |-> NoTarget, throwsIf |-> s] : s \in Signals}
        \cup {[reads |-> {s}, target |-> NoTarget] : s \in Signals}
        \cup {[reads |-> {1}, target |-> 2]}

NextThrow ==
    \/ \E e \in Effects, p \in ThrowPrograms : CreateEffect(e, p)
    \/ \E s \in Signals, v \in Values : Write(s, v)
    \/ \E s \in Signals : Read(s)
    \/ FlushStart
    \/ FlushRun
    \/ FlushThrows
    \/ FlushEnd

SpecThrow == InitEngineSpec /\ [][NextThrow]_vars

(***************************************************************************)
(* Effects created inside the run of another effect.  The outer function   *)
(* reads signal 1, creates an effect that reads signal 2, and then reads   *)
(* signal 3 or nothing; every run of it creates a new inner effect.  There *)
(* are effects that only read as well, and handlers write and read.        *)
(***************************************************************************)
NestedSignals == {1, 2, 3}
NestedEffects == 1..MaxNested
InnerProgram == [reads |-> {2}, target |-> NoTarget]
NestingPrograms ==
    {[reads |-> {1}, target |-> NoTarget, inner |-> InnerProgram, after |-> a,
      innerId |-> 0] : a \in {{}, {3}}}
NestedPlainPrograms ==
    {[reads |-> {s}, target |-> NoTarget] : s \in NestedSignals}

\* the effects created so far, and the one created next
Created == {e \in DOMAIN program : program[e] # NoProgram}
NextEffect == Cardinality(Created) + 1

InitNested ==
    /\ value = [s \in NestedSignals |-> 0]
    /\ subscribers = [s \in NestedSignals |-> <<>>]
    /\ effects = <<>>
    /\ pendingEffects = <<>>
    /\ isFlushing = FALSE
    /\ microtasks = 0
    /\ flushIdx = 0
    /\ program = [e \in NestedEffects |-> NoProgram]
    /\ runs = [e \in NestedEffects |-> 0]
    /\ owed = {}
    /\ turnWrites = [e \in NestedEffects |-> 0]
    /\ lastOp = "init"
    /\ ran = <<>>
    /\ PureIdle
    /\ AppIdle

\* createEffect(fn) by a handler, for an fn that creates an effect itself
CreateNesting(p) ==
    /\ flushIdx = 0
    /\ NextEffect + 1 <= MaxNested
    /\ LET e == NextEffect
       IN /\ program' = [program EXCEPT ![e] = p, ![e + 1] = p.inner]
          /\ SetEngine(effect(Engine, e, [p EXCEPT !.innerId = e + 1]))
    /\ lastOp' = "createEffect"
    /\ UNCHANGED flushIdx
    /\ EngineOnly

\* an iteration of the loop of flushEffects that runs such an effect again
FlushRunNesting ==
    /\ flushIdx >= 1
    /\ flushIdx <= Len(pendingEffects)
    /\ "inner" \in DOMAIN program[pendingEffects[flushIdx]]
    /\ NextEffect <= MaxNested
    /\ LET e == pendingEffects[flushIdx]
           g == effect(Engine, e, [program[e] EXCEPT !.innerId = NextEffect])
       IN /\ SetEngine([g EXCEPT !.runs[e] = @ + 1])
          /\ program' = [program EXCEPT ![NextEffect] = program[e].inner]
    /\ lastOp' = "run"
    /\ flushIdx' = flushIdx + 1
    /\ EngineOnly

NextNested ==
    \/ /\ NextEffect <= MaxNested
       /\ \E p \in NestedPlainPrograms : CreateEffect(NextEffect, p)
    \/ \E p \in NestingPrograms : CreateNesting(p)
    \/ \E s \in NestedSignals, v \in Values : Write(s, v)
    \/ \E s \in NestedSignals : Read(s)
    \/ FlushStart
    \/ FlushRun
    \/ FlushRunNesting
    \/ FlushEnd

SpecNested == InitNested /\ [][NextNested]_vars

(***************************************************************************)
(* Computed accessors.  computed(fn) creates a signal with the value       *)
(* undefined and an effect () => setValue(fn()).  The handlers write the   *)
(* signals flag and source; the first computed, `derived', is one of       *)
(*     () => source()           and    () => flag() ? source() : 0         *)
(* and the second, `total', reads the first:                               *)
(*     () => source() + derived()   or   () => flag() + derived()          *)
(* (sums modulo MaxValue + 1).                                             *)
(***************************************************************************)
undefined == 0 - 2
flag == 1
source == 2
derived == 3
total == 4
ComputedSignals == {flag, source, derived, total}

DerivedPrograms ==
    {[reads |-> {source}, target |-> derived],
     [reads |-> {source}, target |-> derived, guard |-> flag]}
TotalPrograms ==
    {[reads |-> {source, derived}, target |-> total],
     [reads |-> {flag, derived}, target |-> total]}

InitComputed ==
    /\ value = [s \in ComputedSignals |->
                   IF s \in {derived, total} THEN undefined ELSE 0]
    /\ subscribers = [s \in ComputedSignals |-> <<>>]
    /\ effects = <<>>
    /\ pendingEffects = <<>>
    /\ isFlushing = FALSE
    /\ microtasks = 0
    /\ flushIdx = 0
    /\ program = [e \in Effects |-> NoProgram]
    /\ runs = [e \in Effects |-> 0]
    /\ owed = {}
    /\ turnWrites = [e \in Effects |-> 0]
    /\ lastOp = "init"
    /\ ran = <<>>
    /\ PureIdle
    /\ AppIdle

\* the functions a computed may be given: `derived' is effect 1, `total' is
\* effect 2
ComputedPrograms(e) == IF e = 1 THEN DerivedPrograms ELSE TotalPrograms

\* computed(fn) is the step of createEffect for () => setValue(fn())
NextComputed ==
    \/ \E e \in Effects : \E p \in ComputedPrograms(e) : CreateEffect(e, p)
    \/ \E s \in {flag, source}, v \in Values : Write(s, v)
    \/ FlushStart
    \/ FlushRun
    \/ FlushEnd

SpecComputed == InitComputed /\ [][NextComputed]_vars

(***************************************************************************)
(* C1: a write of the value a signal already holds changes nothing: the    *)
(* signal, its subscribers, the pending set, the flushing flag and the     *)
(* queued microtasks are as before, so no subscriber is made pending and   *)
(* no flush is scheduled.                                                  *)
(***************************************************************************)
C1_EqualWriteChangesNothing ==
    [][lastOp' = "writeSame" =>
        UNCHANGED <<value, subscribers, effects, pendingEffects, isFlushing,
                    microtasks, flushIdx, owed, runs, turnWrites>>]_vars

\* an equal-value write was made while every signal has a subscriber and
\* nothing is pending
C1_Witness ==
    /\ lastOp = "writeSame"
    /\ \A s \in Signals : subscribers[s] # <<>>
    /\ pendingEffects = <<>>
    /\ ~isFlushing
    /\ microtasks = 0

(***************************************************************************)
(* C2: value-changing writes made in one synchronous turn to signals that  *)
(* an effect subscribes queue exactly one flush, and when the loop of that *)
(* flush is over the effect has been executed exactly once in it.          *)
(***************************************************************************)
LoopOver == flushIdx >= 1 /\ flushIdx > Len(pendingEffects)

C2_OneFlushOneRun ==
    /\ microtasks <= 1
    /\ \A e \in Effects :
          /\ (flushIdx = 0 /\ turnWrites[e] >= 1) => microtasks = 1
          /\ (LoopOver /\ turnWrites[e] >= 1) => runs[e] = 1
          /\ runs[e] <= 1

\* two or more writes of one turn reached the same effect, and the flush ran it once
C2_Witness ==
    /\ LoopOver
    /\ \E e \in Effects : turnWrites[e] >= 2 /\ runs[e] = 1

(***************************************************************************)
(* C3: an effect scheduled, while a flush runs, by the write of another    *)
(* effect is executed after that write and before the flush completes:     *)
(* when no flush is pending or running, no effect is owed an execution.    *)
(***************************************************************************)
C3_FlushDrains ==
    (flushIdx = 0 /\ ~isFlushing) => owed = {}


(***************************************************************************)
(* The statements about the transformation engine speak of a file name's   *)
(* base and extension, of the rules a chain holds enabled and valid, and   *)
(* of the composition of the per-rule transformations.                     *)
(***************************************************************************)
HasExtension(f) == \E i \in 2..Len(f) : f[i] = "."
LastDot(f) == CHOOSE i \in 2..Len(f) : f[i] = "." /\ \A j \in (i + 1)..Len(f) : f[j] # "."
BaseOf(f) == IF HasExtension(f) THEN SubSeq(f, 1, LastDot(f) - 1) ELSE f
ExtensionOf(f) == IF HasExtension(f) THEN SubSeq(f, LastDot(f), Len(f)) ELSE <<>>
EndsWith(s, t) ==
    Len(s) >= Len(t) /\ SubSeq(s, Len(s) - Len(t) + 1, Len(s)) = t

\* the validity check as the specification words it
StatedValid(r) ==
    /\ r.enabled
    /\ CASE r.type \in {"replace", "replace-case-insensitive"} -> r.search # <<>>
         [] r.type = "regex" -> r.pattern # <<>>
         [] r.type = "trim" -> r.count > 0
         [] r.type \in {"prefix", "suffix"} -> r.text # <<>>
         [] r.type \in {"trim-whitespace", "remove-parentheses",
                        "remove-square-brackets", "remove-curly-brackets"} -> TRUE
         [] OTHER -> FALSE

\* rn(...r1(base)...), unfolded from the last rule
RECURSIVE Composition(_, _)
Composition(rules, base) ==
    IF rules = <<>> THEN base
    ELSE RuleStep(rules[Len(rules)],
                  Composition(SubSeq(rules, 1, Len(rules) - 1), base))

\* a valid rule object carries the type and the parameters of the rule r
Carries(rule, r) ==
    /\ rule.type = r.type
    /\ CASE r.type \in {"replace", "replace-case-insensitive"} ->
              rule.data.search = r.search /\ rule.data.replacement = r.replacement
         [] r.type = "regex" ->
              rule.data.pattern = r.pattern /\ rule.data.replacement = r.replacement
         [] r.type = "trim" ->
              rule.data.position = r.position /\ rule.data.count = r.count
         [] r.type \in {"prefix", "suffix"} -> rule.data.text = r.text
         [] OTHER -> TRUE

(***************************************************************************)
(* C5: for a file name whose last `.' is not at index 0 the output of      *)
(* applyRulesLocally ends with the input's substring from its last `.'     *)
(* on, whatever the chain; for a name without `.' or whose only `.' is at  *)
(* index 0 the whole name is the base and nothing is appended.             *)
(***************************************************************************)
C5_ExtensionPreserved ==
    pc = "shown" =>
        IF HasExtension(pFilename)
        THEN EndsWith(pOut, ExtensionOf(pFilename))
        ELSE pOut = Composition(pValid, pFilename)

\* a chain that rewrites the base of a name with an extension, down to a base
\* that differs from the input's, and the extension is still there
C5_Witness ==
    /\ pc = "shown"
    /\ pFilename = <<"a", ".", "a">>
    /\ Len(pValid) = 2
    /\ pValid[1].type = "replace" /\ pValid[1].data.search = <<"a">>
    /\ pOut = <<".", ".", ".", "a">>

(***************************************************************************)
(* C6: when the chain is empty, or each of its rules is disabled or fails  *)
(* its validity check, the target name of a file is the file's name.       *)
(***************************************************************************)
C6_NoValidRuleIsIdentity ==
    (pc = "shown" /\ \A k \in 1..Len(pChain) : ~StatedValid(pChain[k]))
        => pOut = pFilename

\* a chain of one disabled rule and one enabled invalid rule, on a name the
\* disabled rule would change
C6_Witness ==
    /\ pc = "shown"
    /\ Len(pChain) = 2
    /\ ~pChain[1].enabled /\ pChain[1].type = "replace"
    /\ pChain[2].enabled /\ ~StatedValid(pChain[2])
    /\ \E i \in 1..Len(pFilename) : pFilename[i] = "a"
    /\ pOut = pFilename

(***************************************************************************)
(* C7: getRulesFromSignals returns, in chain order, exactly the rules that *)
(* are enabled and valid (a non-empty search for the two replace kinds, a  *)
(* non-empty pattern for regex, a count > 0 for trim, a non-empty text for *)
(* prefix and suffix, nothing for the four kinds without parameters), each *)
(* with its type and parameters; every other rule is left out.             *)
(***************************************************************************)
C7_ExactlyEnabledAndValid ==
    pc = "shown" =>
        LET expected == SelectSeq(pChain, StatedValid)
        IN /\ Len(pValid) = Len(expected)
           /\ \A k \in 1..Len(expected) : Carries(pValid[k], expected[k])

\* a chain whose first rule is left out and whose second is kept, and one
\* with two kept rules of different types
C7_Witness ==
    /\ pc = "shown"
    /\ Len(pChain) = 2
    /\ pChain[1].type = "trim" /\ pChain[1].count = -1
    /\ pChain[2].type = "regex" /\ pChain[2].pattern = <<"(">>
    /\ Len(pValid) = 1 /\ pValid[1].type = "regex"

(***************************************************************************)
(* C8: the target name is rn(...r1(base)...) + extension for the valid     *)
(* chain r1..rn, the rules applied in chain order to the base only; a      *)
(* prefix followed by a start-trim of one character gives the base back,   *)
(* the start-trim followed by the prefix does not.                         *)
(***************************************************************************)
C8_LeftToRightOnBase ==
    pc = "shown" =>
        /\ pOut = Composition(pValid, BaseOf(pFilename)) \o ExtensionOf(pFilename)
        /\ (Len(pValid) = 2 /\ pValid[1].type = "prefix" /\ pValid[2].type = "trim"
              /\ pValid[1].data.text = <<"x">> /\ pValid[2].data.position = "start"
              /\ pValid[2].data.count = 1)
            => pOut = pFilename
        /\ (Len(pValid) = 2 /\ pValid[1].type = "trim" /\ pValid[2].type = "prefix"
              /\ pValid[2].data.text = <<"x">> /\ pValid[1].data.position = "start"
              /\ pValid[1].data.count = 1)
            => pOut = <<"x">> \o SubSeq(BaseOf(pFilename), 2, Len(BaseOf(pFilename)))
                          \o ExtensionOf(pFilename)

\* the start-trim before the prefix, on a name where the other order gives
\* another result
C8_Witness ==
    /\ pc = "shown"
    /\ pFilename = <<"a", ".", "a">>
    /\ Len(pValid) = 2
    /\ pValid[1].type = "trim" /\ pValid[2].type = "prefix"
    /\ pOut = <<"x", ".", "a">>


(***************************************************************************)
(* The statements about the replace kinds speak of the replacement of      *)
(* every non-overlapping occurrence, found scanning from the left, by a    *)
(* text taken literally.                                                   *)
(***************************************************************************)
RECURSIVE LiteralReplaceAll(_, _, _)
LiteralReplaceAll(b, s, r) ==
    IF Len(b) < Len(s) THEN b
    ELSE IF SubSeq(b, 1, Len(s)) = s
         THEN r \o LiteralReplaceAll(SubSeq(b, Len(s) + 1, Len(b)), s, r)
         ELSE <<b[1]>> \o LiteralReplaceAll(Tail(b), s, r)

\* the chain is one enabled rule of the given type with a non-empty search
OneRule(type) ==
    /\ pc = "shown"
    /\ Len(pChain) = 1
    /\ pChain[1].enabled
    /\ pChain[1].type = type
    /\ pChain[1].search # <<>>

\* s occurs in b at position i in some letter case
OccursFoldedAt(b, s, i) ==
    /\ i + Len(s) <= Len(b)
    /\ \A k \in 1..Len(s) : Canonicalize(b[i + k]) = Canonicalize(s[k])

\* b holds s only in the exact case of s
OnlyExactCase(b, s) ==
    \A i \in 0..Len(b) : OccursFoldedAt(b, s, i) => OccursAt(b, s, i)

(***************************************************************************)
(* C9: a replace rule with a non-empty search s replaces every             *)
(* non-overlapping occurrence of s in the base, scanning from the left, by *)
(* the replacement text taken literally, every character of s standing for *)
(* itself; `a.b.txt' with replace(`.', `_') gives `a_b.txt'.               *)
(***************************************************************************)
C9_ReplaceIsLiteral ==
    OneRule("replace") =>
        /\ pOut = LiteralReplaceAll(BaseOf(pFilename), pChain[1].search,
                                    pChain[1].replacement)
                     \o ExtensionOf(pFilename)
        /\ (pFilename = <<"a", ".", "b", ".", "t", "x", "t">>
              /\ pChain[1].search = <<".">> /\ pChain[1].replacement = <<"_">>)
            => pOut = <<"a", "_", "b", ".", "t", "x", "t">>

\* the example of the statement has been previewed
C9_Witness ==
    /\ OneRule("replace")
    /\ pFilename = <<"a", ".", "b", ".", "t", "x", "t">>
    /\ pChain[1].search = <<".">>
    /\ pChain[1].replacement = <<"_">>
    /\ pOut = <<"a", "_", "b", ".", "t", "x", "t">>

(***************************************************************************)
(* C10: replace-case-insensitive replaces each occurrence of s by the      *)
(* literal text r, so on a base that holds s only in the exact case of s   *)
(* it gives what replace gives, for every replacement text r.              *)
(***************************************************************************)
C10_SameAsReplaceOnExactCase ==
    (OneRule("replace-case-insensitive")
        /\ OnlyExactCase(BaseOf(pFilename), pChain[1].search))
      => pOut = LiteralReplaceAll(BaseOf(pFilename), pChain[1].search,
                                  pChain[1].replacement)
                   \o ExtensionOf(pFilename)


(***************************************************************************)
(* C4: whenever no flush is pending, the rows of the file table are the    *)
(* files of the current list and the preview shown for each of them is     *)
(* applyRulesLocally(its name, the currently valid rule chain), whatever   *)
(* rule additions, removals, moves, toggles, type changes, parameter edits *)
(* and renames came before.                                                *)
(***************************************************************************)
NoFlushPending == microtasks = 0 /\ ~isFlushing
C4_PreviewIsCurrent ==
    NoFlushPending =>
        LET files == value[fileSignals].items
        IN /\ dom.fileRows = files
           /\ \A k \in 1..Len(files) :
                 dom.previewText[files[k]] =
                    applyRulesLocally(value[<<"name", files[k]>>],
                                      getRulesFromSignals(ChainValues(AppEngine)))

\* no flush is pending after a rule moved in front of an older one, both
\* valid, one of them changed to another type, and a rename changed the name
\* of a file whose preview differs from its name
C4_Witness ==
    /\ NoFlushPending
    /\ value[ruleSignals] = <<2, 1>>
    /\ Len(getRulesFromSignals(ChainValues(AppEngine))) = 2
    /\ value[<<"type", 1>>] # value[<<"type", 2>>]
    /\ \E k \in 1..Len(value[fileSignals].items) :
          LET f == value[fileSignals].items[k]
          IN /\ value[<<"name", f>>] \notin Range(AppFileNames)
             /\ dom.previewText[f] # value[<<"name", f>>]

(***************************************************************************)
(* C11: a trim rule with count n > 0 removes exactly min(n, length(base))  *)
(* characters from the chosen side of the base and never fails; with       *)
(* n >= length(base) the result is the extension alone: `hello.png' with   *)
(* trim(start, 10) gives `.png'.                                           *)
(***************************************************************************)
C11_TrimRemovesMin ==
    (pc = "shown" /\ Len(pChain) = 1 /\ pChain[1].type = "trim"
        /\ pChain[1].count > 0)
      => LET base == BaseOf(pFilename)
             k == IF pChain[1].count <= Len(base) THEN pChain[1].count ELSE Len(base)
         IN /\ pOut # Thrown
            /\ pOut = (IF pChain[1].position = "start"
                       THEN SubSeq(base, k + 1, Len(base))
                       ELSE SubSeq(base, 1, Len(base) - k))
                         \o ExtensionOf(pFilename)
            /\ pChain[1].count >= Len(base) => pOut = ExtensionOf(pFilename)

\* the example of the statement has been previewed
C11_Witness ==
    /\ pc = "shown"
    /\ Len(pChain) = 1 /\ pChain[1].type = "trim"
    /\ pFilename = <<"h", "e", "l", "l", "o", ".", "p", "n", "g">>
    /\ pChain[1].position = "start" /\ pChain[1].count = 10
    /\ pOut = <<".", "p", "n", "g">>

(***************************************************************************)
(* C12: a bracket-removal rule deletes, scanning the base left to right,   *)
(* every span from an opening bracket of its kind to the first closing     *)
(* bracket of that kind after it, without balancing nested brackets and    *)
(* leaving unmatched brackets in place: a character of the base is deleted *)
(* exactly when an opening bracket stands at or before it with no closing  *)
(* bracket between the two and a closing bracket stands at or after it;    *)
(* `a(b(c)d)e.txt' with remove-parentheses gives `ad)e.txt'.               *)
(***************************************************************************)
BracketsOf(type) ==
    CASE type = "remove-parentheses" -> <<"(", ")">>
      [] type = "remove-square-brackets" -> <<"[", "]">>
      [] type = "remove-curly-brackets" -> <<"{", "}">>

InSpan(b, p, open, close) ==
    \E i \in 1..p :
        /\ b[i] = open
        /\ \A q \in (i + 1)..(p - 1) : b[q] # close
        /\ \E j \in (IF p > i THEN p ELSE i + 1)..Len(b) : b[j] = close

RECURSIVE WithoutSpans(_, _, _, _)
WithoutSpans(b, p, open, close) ==
    IF p > Len(b) THEN <<>>
    ELSE (IF InSpan(b, p, open, close) THEN <<>> ELSE <<b[p]>>)
            \o WithoutSpans(b, p + 1, open, close)

C12_ShortestSpansRemoved ==
    (pc = "shown" /\ Len(pChain) = 1 /\ pChain[1].type \in
          {"remove-parentheses", "remove-square-brackets", "remove-curly-brackets"})
      => LET br == BracketsOf(pChain[1].type)
         IN /\ pOut = WithoutSpans(BaseOf(pFilename), 1, br[1], br[2])
                         \o ExtensionOf(pFilename)
            /\ (pFilename = <<"a", "(", "b", "(", "c", ")", "d", ")", "e",
                              ".", "t", "x", "t">>
                  /\ pChain[1].type = "remove-parentheses")
                => pOut = <<"a", "d", ")", "e", ".", "t", "x", "t">>

\* the example of the statement has been previewed
C12_Witness ==
    /\ pc = "shown"
    /\ Len(pChain) = 1 /\ pChain[1].type = "remove-parentheses"
    /\ pFilename = <<"a", "(", "b", "(", "c", ")", "d", ")", "e", ".", "t", "x", "t">>
    /\ pOut = <<"a", "d", ")", "e", ".", "t", "x", "t">>

(***************************************************************************)
(* C13: applyRulesLocally raises no error, whatever the file name and the  *)
(* chain; a regex rule whose pattern or flags do not compile leaves the    *)
(* base as it was before the rule, and the rules after it are applied: the *)
(* result is the one of the chain without the rules that do not compile.   *)
(***************************************************************************)
Compiles(rule) ==
    rule.type = "regex" => RegExp(rule.data.pattern, rule.data.flags).ok

C13_InvalidRegexSkipped ==
    pc = "shown" =>
        /\ pOut # Thrown
        /\ pOut = Composition(SelectSeq(pValid, Compiles), BaseOf(pFilename))
                     \o ExtensionOf(pFilename)

\* a regex rule that does not compile came before a rule that changed the name
C13_Witness ==
    /\ pc = "shown"
    /\ Len(pValid) = 2
    /\ ~Compiles(pValid[1])
    /\ pValid[2].type = "prefix"
    /\ pOut = <<"x">> \o pFilename
    /\ pValid[1].data.flags = <<"x">>

(***************************************************************************)
(* The statements about renaming speak of the entries of the file list, of *)
(* the operations of a run of renameFiles (one per entry, in list order),  *)
(* of the batch sent to the main process and of the results table.         *)
(***************************************************************************)
\* the positions of the operations whose target name differs from the name
ChangedAt(all) == {k \in 1..Len(all) : all[k].originalName # all[k].newName}

\* the j-th smallest member of a set of numbers
NthOf(S, j) == CHOOSE k \in S : Cardinality({i \in S : i <= k}) = j

\* the position in the batch of the operation of entry k
BatchIndex(all, k) == Cardinality({i \in ChangedAt(all) : i <= k})

\* a run of renameFiles ends in this step, by the results of the main process
RunResumes == Len(inflight') < Len(inflight)

\* a run of renameFiles ends in this step without a call of the main process
RunReturns == alloc'.renames = alloc.renames + 1 /\ inflight' = inflight

\* the path holds a character that is not white space
NonBlank(path) == \E i \in 1..Len(path) : path[i] \notin {" ", "\t"}

\* the path up to and including its last `/' or `\'
KeepDirectory(path) ==
    LET at == {i \in 1..Len(path) : path[i] \in {"/", "\\"}}
    IN IF at = {} THEN <<>>
       ELSE SubSeq(path, 1, CHOOSE i \in at : \A j \in at : j <= i)

(***************************************************************************)
(* C14: in every run of renameFiles the batch passed to the main process   *)
(* holds, in list order, exactly the operations whose target name differs  *)
(* from the current name; an entry whose target name equals its name is    *)
(* never in it.                                                            *)
(***************************************************************************)
C14_BatchIsChangedEntries ==
    /\ \A i \in 1..Len(inflight) :
          LET all == inflight[i].allOperations
              ops == inflight[i].operations
          IN /\ Len(ops) = Cardinality(ChangedAt(all))
             /\ \A j \in 1..Len(ops) : ops[j] = all[NthOf(ChangedAt(all), j)]
    /\ (Len(inflight) = 1 /\ alloc.renames = 1) =>
          LET all == inflight[1].allOperations
              files == value[fileSignals].items
              rules == getRulesFromSignals(ChainValues(AppEngine))
          IN /\ Len(all) = Len(files)
             /\ \A k \in 1..Len(files) :
                   /\ all[k].originalName = value[<<"name", files[k]>>]
                   /\ all[k].originalPath = value[<<"path", files[k]>>]
                   /\ all[k].newName =
                         applyRulesLocally(value[<<"name", files[k]>>], rules)
    /\ \A k \in 1..Len(main.operations) :
          main.operations[k].originalName # main.operations[k].newName

\* the main process got a batch of one operation from a list of two entries,
\* the second of which the rules leave alone
C14_Witness ==
    /\ Len(main.operations) = 1
    /\ Len(value[fileSignals].items) = 2
    /\ value[<<"name", value[fileSignals].items[2]>>] = <<"c">>
    /\ main.operations[1].originalName = <<"a">>

(***************************************************************************)
(* C15: after every run of renameFiles that finds a file and a valid rule, *)
(* the results table holds, for each entry whose target name equals its    *)
(* name, a result with success = true and unchanged = true under that      *)
(* name, also when no entry of the list changes.                           *)
(***************************************************************************)
UnchangedReported(all, table) ==
    \A k \in 1..Len(all) :
        all[k].originalName = all[k].newName =>
            \E r \in table :
                r.originalName = all[k].originalName /\ r.success /\ r.unchanged

C15_UnchangedReported ==
    [][/\ RunResumes =>
             UnchangedReported(Head(inflight).allOperations, value'[renameResults].map)
       /\ (RunReturns /\ Len(value[fileSignals].items) # 0
              /\ Len(getRulesFromSignals(ChainValues(AppEngine))) # 0) =>
             UnchangedReported(
                 [k \in 1..Len(value[fileSignals].items) |->
                     LET name == value[<<"name", value[fileSignals].items[k]>>]
                     IN [originalName |-> name,
                         newName |-> applyRulesLocally(name,
                                        getRulesFromSignals(ChainValues(AppEngine)))]],
                 value'[renameResults].map)]_vars

(***************************************************************************)
(* C16: the rename-files handler returns one result per operation of the   *)
(* batch, in the order of the batch, and the failure of an operation (an   *)
(* empty path or an error of the file system) neither keeps the operations *)
(* after it from being attempted nor changes their outcome: the result of  *)
(* an operation depends on its path and on its own file system call alone. *)
(***************************************************************************)
C16_OneResultPerOperation ==
    LET ops == main.operations
        res == main.results
    IN /\ Len(res) = Len(ops)
       /\ \A k \in 1..Len(ops) :
             /\ k \in DOMAIN res
             /\ res[k].originalName = ops[k].originalName
             /\ res[k].success <=> (NonBlank(ops[k].originalPath) /\ main.renamed[k])
             /\ res[k].success => res[k].newName = ops[k].newName
             /\ NonBlank(ops[k].originalPath) =>
                   \E c \in 1..Len(main.calls) :
                       main.calls[c].op = k /\ main.calls[c].from = ops[k].originalPath
       /\ \A c, d \in 1..Len(main.calls) :
             c < d => main.calls[c].op < main.calls[d].op

\* the file system failed the first operation of a batch and the second one
\* was made and succeeded
C16_Witness ==
    /\ Len(main.results) = 2
    /\ ~main.results[1].success /\ main.results[1].error = FsError
    /\ main.results[2].success
    /\ Len(main.calls) = 2

(***************************************************************************)
(* C17: an operation whose originalPath is empty or only white space gets  *)
(* a result with success = false and an error text no other failure has,   *)
(* and fs.renameSync is not called for it.                                 *)
(***************************************************************************)
C17_EmptyPathFailsFast ==
    \A k \in 1..Len(main.operations) :
        k \in DOMAIN main.results =>
            IF NonBlank(main.operations[k].originalPath)
            THEN main.results[k].error # NoPathError
            ELSE /\ ~main.results[k].success
                 /\ main.results[k].error = NoPathError
                 /\ \A c \in 1..Len(main.calls) : main.calls[c].op # k

\* a batch of an operation with an empty path and one with a path of white
\* space was handled without a call of the file system
C17_Witness ==
    /\ Len(main.operations) = 2
    /\ main.operations[1].originalPath = <<>>
    /\ main.operations[2].originalPath = <<" ">>
    /\ main.results[2].error = NoPathError
    /\ main.calls = <<>>

(***************************************************************************)
(* C18: when displayResults updates an entry from a successful result, the *)
(* entry's name is the result's new name and its path is the old path up   *)
(* to and including its last `/' or `\' followed by the new name (the new  *)
(* name alone when the old path has no separator); an entry whose path     *)
(* ended with its name still does.                                         *)
(***************************************************************************)
C18_PathKeepsDirectory ==
    [][RunResumes =>
          \A k \in 1..Len(value[fileSignals].items) :
              LET f == value[fileSignals].items[k]
                  name == value[<<"name", f>>]
                  path == value[<<"path", f>>]
              IN \A r \in value'[renameResults].map :
                    (r.originalName = name /\ r.success /\ r.newName # <<>>) =>
                        /\ value'[<<"name", f>>] = r.newName
                        /\ value'[<<"path", f>>] = KeepDirectory(path) \o r.newName
                        /\ EndsWith(path, name) =>
                              EndsWith(value'[<<"path", f>>], value'[<<"name", f>>])
      ]_vars

\* an entry whose path has a `/' before its last `\' was renamed to a name
\* that holds a `\'
C18_Witness ==
    /\ inflight = <<>>
    /\ \E k \in 1..Len(main.results) : main.results[k].success
    /\ \E k \in 1..Len(value[fileSignals].items) :
          LET f == value[fileSignals].items[k]
          IN /\ value[<<"name", f>>] = <<"b", "\\", "x">>
             /\ value[<<"path", f>>] = <<"\\", "d", "/", "e", "\\", "b", "\\", "x">>

(***************************************************************************)
(* C19: for every call of fs.renameSync the handler makes, the destination *)
(* lies in the directory of originalPath and differs from originalPath in  *)
(* its last segment only, whatever name the chain produced, names with a   *)
(* separator or `..' in them included.                                     *)
(***************************************************************************)
RECURSIVE PathSegs(_, _)
PathSegs(path, seps) ==
    IF path = <<>> THEN <<>>
    ELSE IF Head(path) \in seps THEN PathSegs(Tail(path), seps)
    ELSE LET n == IF \E i \in 1..Len(path) : path[i] \in seps
                  THEN (CHOOSE i \in 1..Len(path) :
                           path[i] \in seps /\ \A j \in 1..(i - 1) : path[j] \notin seps) - 1
                  ELSE Len(path)
         IN <<SubSeq(path, 1, n)>> \o PathSegs(SubSeq(path, n + 1, Len(path)), seps)

SameDirectory(from, to, seps) ==
    LET a == PathSegs(from, seps)
        b == PathSegs(to, seps)
    IN /\ Len(a) >= 1
       /\ Len(b) = Len(a)
       /\ SubSeq(b, 1, Len(b) - 1) = SubSeq(a, 1, Len(a) - 1)
       /\ (from[1] \in seps) <=> (to # <<>> /\ to[1] \in seps)

C19_DestinationInSameDirectory ==
    \A c \in 1..Len(main.calls) :
        SameDirectory(main.calls[c].from, main.calls[c].to,
                      IF main.platform = "win32" THEN {"/", "\\"} ELSE {"/"})

(***************************************************************************)
(* C20: when a batch completes, the name and the path of an entry are      *)
(* updated if and only if the operation submitted for that entry           *)
(* succeeded, also when two entries of different directories have the same *)
(* name and their operations end differently.                              *)
(***************************************************************************)
C20_UpdatedIffOwnOperationSucceeded ==
    [][RunResumes =>
          LET all == Head(inflight).allOperations
              files == value[fileSignals].items
          IN \A k \in 1..Len(files) :
                LET f == files[k]
                    succeeded == /\ k \in ChangedAt(all)
                                 /\ main'.results[BatchIndex(all, k)].success
                IN IF succeeded
                   THEN /\ value'[<<"name", f>>] = all[k].newName
                        /\ value'[<<"path", f>>] =
                              KeepDirectory(value[<<"path", f>>]) \o all[k].newName
                   ELSE /\ value'[<<"name", f>>] = value[<<"name", f>>]
                        /\ value'[<<"path", f>>] = value[<<"path", f>>]
      ]_vars

(***************************************************************************)
(* C21: after a run of renameFiles got its results and the effects have    *)
(* flushed, the error cell of each entry's row shows that entry's own      *)
(* result of the run: the success marker when the entry was renamed or was *)
(* unchanged, the error text when its rename failed.                       *)
(***************************************************************************)
OwnResult(run, k) ==
    IF k \in ChangedAt(run.allOperations)
    THEN run.results[BatchIndex(run.allOperations, k)]
    ELSE [success |-> TRUE, error |-> ""]

C21_RowShowsOwnResult ==
    (finished # <<>> /\ NoFlushPending) =>
        LET run == finished[Len(finished)]
            files == value[fileSignals].items
        IN \A k \in 1..Len(files) :
              dom.errorText[files[k]] =
                 IF OwnResult(run, k).success THEN SuccessStatus
                 ELSE ErrorStatus(OwnResult(run, k).error)

(***************************************************************************)
(* C22: when a call of addFiles completes, the file list holds exactly the *)
(* entries of that call's source items, in source order, a folder replaced *)
(* in place by its files, each entry with the name, path and size of its   *)
(* file and not selected, and no file object of the list before is in it.  *)
(***************************************************************************)
AddCompletes == value'[fileSignals] # value[fileSignals]

\* the call that completes in this step: its source items and what
\* getPathForFile did for each
CompletingCall ==
    IF Len(adding') < Len(adding)
    THEN adding[CHOOSE k \in 1..Len(adding) : adding' = Splice(adding, k - 1)]
    ELSE [items |-> <<>>, env |-> <<>>, call |-> alloc.lists + 1]

RECURSIVE EntriesOfSources(_, _)
EntriesOfSources(call, i) ==
    IF i > Len(call.items) THEN <<>>
    ELSE LET item == call.items[i]
             own == IF item.kind = "dir" THEN item.children
                    ELSE <<FileInfo(item.name,
                                    IF call.env[i].resolved THEN item.path ELSE <<>>,
                                    item.size)>>
         IN own \o EntriesOfSources(call, i + 1)

C22_AddFilesReplacesList ==
    [][AddCompletes =>
          LET expected == EntriesOfSources(CompletingCall, 1)
              files == value'[fileSignals].items
          IN /\ Len(files) = Len(expected)
             /\ \A j \in 1..Len(files) :
                   /\ value'[<<"name", files[j]>>] = expected[j].name
                   /\ value'[<<"path", files[j]>>] = expected[j].path
                   /\ value'[<<"size", files[j]>>] = expected[j].size
                   /\ value'[<<"selected", files[j]>>] = FALSE
                   /\ files[j] \notin Range(value[fileSignals].items)
                   /\ \A i \in 1..(j - 1) : files[i] # files[j]
      ]_vars

\* the same where getPathForFile returns and no request is rejected: this one
\* holds
AddFilesWithoutFailure ==
    [][(AddCompletes /\ CompletingCall.env = NoFailure(CompletingCall.items)) =>
          LET expected == EntriesOfSources(CompletingCall, 1)
              files == value'[fileSignals].items
          IN /\ Len(files) = Len(expected)
             /\ \A j \in 1..Len(files) :
                   /\ value'[<<"name", files[j]>>] = expected[j].name
                   /\ value'[<<"path", files[j]>>] = expected[j].path
                   /\ value'[<<"size", files[j]>>] = expected[j].size
                   /\ value'[<<"selected", files[j]>>] = FALSE
                   /\ files[j] \notin Range(value[fileSignals].items)
      ]_vars

(***************************************************************************)
(* C23: selectAllFiles, deselectAllFiles, invertSelection and the clicks   *)
(* on a row (plain, with ctrl or meta, with shift) change `selected' flags *)
(* only: the step that changes a flag leaves the file list, the name, path *)
(* and size of every entry, the rule chain and its rules' signals, the     *)
(* results table and the tables of the page as they are, and the flush     *)
(* that follows leaves every value, every preview and every status alone.  *)
(***************************************************************************)
SelectionStep ==
    \E f \in FileIds : value'[<<"selected", f>>] # value[<<"selected", f>>]

RowEffects == {RowEffect(f) : f \in FileIds}

RunBegins == alloc'.renames = alloc.renames + 1

NothingToRename ==
    \/ Len(value[fileSignals].items) = 0
    \/ Len(getRulesFromSignals(ChainValues(AppEngine))) = 0

C24_ValidationBlocksRename ==
    [][(RunBegins /\ NothingToRename) =>
          /\ inflight' = inflight
          /\ main' = main
          /\ value' = value
          /\ dom' = dom
          /\ finished' = finished
          /\ microtasks' = microtasks
          /\ pendingEffects' = pendingEffects
      ]_vars

\* renameFiles has returned where the list holds files and the chain a rule,
\* but none that is valid
C24_Witness ==
    /\ alloc.renames = 1
    /\ inflight = <<>>
    /\ finished = <<>>
    /\ main.operations = <<>>
    /\ Len(value[fileSignals].items) = MaxFiles
    /\ Len(value[ruleSignals]) = 1
    /\ Len(getRulesFromSignals(ChainValues(AppEngine))) = 0

(***************************************************************************)
(* C25: in every state a handler can start from, removeSelectedRule with   *)
(* the cursor on a rule of the chain leaves a chain one shorter, in which  *)
(* the rules before the cursor keep their positions and the rules after it *)
(* move up by one, and a null cursor; with a null cursor, or one that is   *)
(* on no rule of the chain, it leaves the chain and the cursor as they     *)
(* are.                                                                    *)
(***************************************************************************)
CursorInRange(g) ==
    /\ g.value[selectedRuleIndex] # null
    /\ g.value[selectedRuleIndex] >= 0
    /\ g.value[selectedRuleIndex] < Len(g.value[ruleSignals])

C25_RemoveSelectedRule ==
    Stable =>
        LET i == value[selectedRuleIndex]
            rules == value[ruleSignals]
            after == removeSelectedRuleOf(AppEngine)
            left == after.value[ruleSignals]
        IN IF CursorInRange(AppEngine)
           THEN /\ Len(left) = Len(rules) - 1
                /\ \A k \in 1..Len(left) :
                      left[k] = IF k <= i THEN rules[k] ELSE rules[k + 1]
                /\ after.value[selectedRuleIndex] = null
           ELSE /\ left = rules
                /\ after.value[selectedRuleIndex] = i

\* the second of three rules has been removed, the first and the third are
\* left in their order, the cursor is null
C25_Witness ==
    /\ alloc.rules = MaxRuleObjects
    /\ value[ruleSignals] = <<1, 3>>
    /\ value[selectedRuleIndex] = null
    /\ microtasks > 0

(***************************************************************************)
(* C26: in every state a handler can start from, moveRuleUp with the       *)
(* cursor on a rule that is not the first exchanges that rule with the one *)
(* before it, and moveRuleDown with the cursor on a rule that is not the   *)
(* last exchanges it with the one after it; every other position keeps its *)
(* rule and the cursor is on the moved rule's new position.  With the      *)
(* cursor null or on the boundary the chain and the cursor stay as they    *)
(* are.  A moveRuleDown after a moveRuleUp that moved a rule gives back    *)
(* the chain and the cursor there were before.                             *)
(***************************************************************************)
\* chain `after' is chain `before' with the rules at a and b exchanged, the
\* positions counted from one
Exchanged(before, after, a, b) ==
    /\ Len(after) = Len(before)
    /\ after[a] = before[b]
    /\ after[b] = before[a]
    /\ \A k \in 1..Len(before) : k \notin {a, b} => after[k] = before[k]

CanMoveUp(g) == CursorInRange(g) /\ g.value[selectedRuleIndex] > 0
CanMoveDown(g) ==
    CursorInRange(g) /\ g.value[selectedRuleIndex] < Len(g.value[ruleSignals]) - 1

IsWrite(op) == op \in {"writeSame", "writeNew"}

C27_RunsAtCreationAndInFlushOnly ==
    [][/\ lastOp' = "createEffect" =>
            \E e \in Effects :
                /\ program[e] = NoProgram
                /\ program'[e] # NoProgram
                /\ ran' = <<e>>
       /\ IsWrite(lastOp') =>
            /\ ran' = <<>>
            /\ runs' = runs
       /\ ran' # <<>> =>
            \/ lastOp' = "createEffect"
            \/ /\ lastOp' = "run"
               /\ flushIdx >= 1
               /\ ran' = <<pendingEffects[flushIdx]>>
      ]_vars

\* a handler has written a new value to a signal that has a subscriber: the
\* subscriber is pending, the microtask is queued and nothing has run
C27_Witness ==
    /\ lastOp = "writeNew"
    /\ ran = <<>>
    /\ pendingEffects # <<>>
    /\ microtasks > 0
    /\ flushIdx = 0
    /\ \A e \in Effects : runs[e] = 0

(***************************************************************************)
(* C28: while flushEffects runs, the pending effects are distinct and no   *)
(* more than there are effects, the loop has executed each of the effects  *)
(* it has passed once and no other effect, and it is at most one position  *)
(* past the last pending effect: the flush ends after at most one          *)
(* execution per effect, also when the effects it runs write signals.      *)
(***************************************************************************)
Passed == {pendingEffects[i] : i \in 1..(flushIdx - 1)}

C28_FlushRunsEachEffectOnce ==
    flushIdx >= 1 =>
        /\ flushIdx <= Len(pendingEffects) + 1
        /\ Len(pendingEffects) <= Cardinality(Effects)
        /\ \A i, j \in 1..Len(pendingEffects) :
              i # j => pendingEffects[i] # pendingEffects[j]
        /\ \A e \in Effects : runs[e] = IF e \in Passed THEN 1 ELSE 0

\* the loop is over, every effect has run once, and one of them was scheduled
\* again by the write of an effect that ran after it
C28_Witness ==
    /\ LoopOver
    /\ owed # {}
    /\ \A e \in Effects : runs[e] = 1

(***************************************************************************)
(* C29: once an effect that writes, on every run, a value other than the   *)
(* one it read to the signal it read has been created, the scheduler is    *)
(* never without a pending effect: the effect is executed again and again. *)
(***************************************************************************)
SelfWriterCreated == \E e \in Effects : program[e] = SelfWriter

C29_SelfWriterNeverSettles ==
    SelfWriterCreated => pendingEffects # <<>>

(***************************************************************************)
(* C30: whenever no flush is queued or running, the signal behind every    *)
(* computed that has been created holds what the computed's function       *)
(* returns from the current values of the signals.                         *)
(***************************************************************************)
SchedulerIdle == flushIdx = 0 /\ ~isFlushing /\ microtasks = 0

C30_ComputedIsCurrent ==
    SchedulerIdle =>
        \A e \in Effects :
            program[e] # NoProgram =>
                value[program[e].target] = Returns(Engine, program[e])

(***************************************************************************)
(* C31: the first thing a handler does after a flush in which an effect    *)
(* threw works as it does otherwise: when it writes a new value to a       *)
(* signal that has subscribers, the microtask that will execute them is    *)
(* queued, and when it reads a signal, the signal gets no subscriber.      *)
(***************************************************************************)
Written == {s \in Signals : value'[s] # value[s]}

HandlerStepWorks ==
    /\ (lastOp' = "writeNew" /\ \E s \in Written : subscribers[s] # <<>>) =>
          microtasks' > 0
    /\ lastOp' = "read" => subscribers' = subscribers

C31_EngineWorksAfterThrow == [][lastOp = "threw" => HandlerStepWorks]_vars

\* where no function throws, every step of a handler works so
C31_WithoutThrow ==
    [][(\A e \in Effects : "throwsIf" \notin DOMAIN program'[e]) =>
          HandlerStepWorks]_vars

(***************************************************************************)
(* C32: a read subscribes the effect whose function makes it and no other: *)
(* the subscribers of a signal are the effects whose own function has read *)
(* it (the effect created in a run for the reads of the inner function,    *)
(* the outer effect for its reads before and after that creation), a       *)
(* handler's read adds none, and no effect is left on the stack when a     *)
(* step is over.                                                           *)
(***************************************************************************)
\* the signals the function of program p reads itself
OwnReads(p) == IF "inner" \in DOMAIN p THEN p.reads \cup p.after ELSE p.reads

C32_ReadSubscribesInnermost ==
    /\ effects = <<>>
    /\ \A s \in DOMAIN subscribers :
          Range(subscribers[s]) = {e \in Created : s \in OwnReads(program[e])}

\* the flush has just run an outer effect again, and the run has created a
\* second inner effect: the inner effects alone subscribe signal 2 and the
\* outer effect alone signal 3
C32_Witness ==
    /\ lastOp = "run"
    /\ \E e \in Created :
          /\ "inner" \in DOMAIN program[e]
          /\ program[e].after = {3}
          /\ ran = <<e, e + 2>>
          /\ subscribers[3] = <<e>>
          /\ subscribers[2] = <<e + 1, e + 2>>

(***************************************************************************)
(* C33: whenever no flush is pending, the rule table has one row for each  *)
(* rule of the chain and no other rule row, and the row at position i is   *)
(* bound to the signals of the rule at position i of the chain.            *)
(***************************************************************************)
C33_RowsFollowChain ==
    NoFlushPending =>
        SelectSeq(dom.tbodyRows, IsRuleRow) = value[ruleSignals]

(***************************************************************************)
(* C34: in every reachable state the selection cursor of the rule table is *)
(* null or the index of a rule of the chain.                               *)
(***************************************************************************)
C34_CursorNullOrValid ==
    \/ value[selectedRuleIndex] = null
    \/ /\ value[selectedRuleIndex] >= 0
       /\ value[selectedRuleIndex] < Len(value[ruleSignals])

(***************************************************************************)
(* C35: when the results of a batch arrive, the entries whose name or path *)
(* changes are entries of the list the batch was computed from; an entry   *)
(* created since keeps its name and its path.                              *)
(***************************************************************************)
RenamedInRegistry ==
    {f \in FileIds : \/ value'[<<"name", f>>] # value[<<"name", f>>]
                     \/ value'[<<"path", f>>] # value[<<"path", f>>]}

C35_ResultsTouchBatchEntriesOnly ==
    [][RunResumes => RenamedInRegistry \subseteq Range(Head(inflight).files)]_vars

(***************************************************************************)
(* C36: when calls of addFiles overlap and the one that completes last is  *)
(* not the one that started last, its completion leaves in the list what   *)
(* the call that started last has put there: once all have completed, the  *)
(* list is the expansion of the sources of the call that started last.     *)
(***************************************************************************)
\* the entries of the file list under the values v
Listed(v) ==
    [j \in 1..Len(v[fileSignals].items) |->
        FileInfo(v[<<"name", v[fileSignals].items[j]>>],
                 v[<<"path", v[fileSignals].items[j]>>],
                 v[<<"size", v[fileSignals].items[j]>>])]

LastCompletes == Len(adding) = 1 /\ adding' = <<>>

C36_LastStartedCallWins ==
    [][(LastCompletes /\ CompletingCall.call < alloc.lists) =>
          Listed(value') = Listed(value)]_vars

(***************************************************************************)
(* The files of the disk: the main process renames the files of a batch on *)
(* a disk that holds the files of the list and, or not, one more file of   *)
(* their directory.                                                        *)
(***************************************************************************)
\* fs.renameSync(oldPath, newPath): it throws when oldPath is not a file of
\* the disk, and else the file takes the place of whatever newPath held
renameSync(disk, oldPath, newPath) ==
    IF oldPath \in disk
    THEN [ok |-> TRUE, disk |-> (disk \ {oldPath}) \cup {newPath}]
    ELSE [ok |-> FALSE, disk |-> disk]

\* the call of fs.renameSync the loop makes for an operation, if it makes one
renameCall(disk, calls) ==
    IF calls = <<>> THEN [ok |-> FALSE, disk |-> disk]
    ELSE renameSync(disk, calls[1].from, calls[1].to)

\* the handler's loop from operation k on, on the disk: the disk it leaves
\* and, for each operation, whether fs.renameSync returned
RECURSIVE renameFilesOn(_, _, _, _, _)
renameFilesOn(platform, operations, k, disk, renamed) ==
    IF k > Len(operations) THEN [disk |-> disk, renamed |-> renamed]
    ELSE renameFilesOn(platform, operations, k + 1,
            renameCall(disk, HandleOperation(platform, operations[k], k,
                                             TRUE).calls).disk,
            Append(renamed,
                   renameCall(disk, HandleOperation(platform, operations[k], k,
                                                    TRUE).calls).ok))

\* renameFiles() goes on from its await with the results of the handler
ResumeWith(disk, renamed, handled) ==
    /\ main' = [platform |-> main.platform,
                operations |-> Head(inflight).operations,
                renamed |-> renamed,
                calls |-> handled.calls,
                results |-> handled.results,
                disk |-> disk]
    /\ AppStep(displayResults(AppEngine,
                  handled.results
                      \o unchangedResultsOf(Head(inflight).allOperations)))
    /\ finished' = Append(finished,
          [allOperations |-> Head(inflight).allOperations,
           results |-> handled.results
                          \o unchangedResultsOf(Head(inflight).allOperations)])

\* the handler of the main process on what fs.renameSync did on the disk
ResumeOnDisk(onDisk) ==
    ResumeWith(onDisk.disk, onDisk.renamed,
               renameFilesMain(main.platform, Head(inflight).operations,
                               onDisk.renamed, 1,
                               [calls |-> <<>>, results |-> <<>>]))

\* the main process handles the batch on its disk and renameFiles() goes on
\* from its await
renameFilesOnDisk ==
    /\ Stable
    /\ inflight # <<>>
    /\ ResumeOnDisk(renameFilesOn(main.platform, Head(inflight).operations, 1,
                                  main.disk, <<>>))
    /\ inflight' = Tail(inflight)
    /\ UNCHANGED <<alloc, adding>>

\* a file of the directory /d that is not of the list
OtherFile == <<"/", "d", "/", "b">>

\* the disks the list can come from: the files of the entries with a path,
\* and the other file or not
Disks(entries) ==
    LET listed == {entries[k].path : k \in {i \in 1..Len(entries) :
                                               NonBlank(entries[i].path)}}
    IN {listed, listed \cup {OtherFile}}

InitDisk ==
    \E entries \in RenameLists("posix"), chain \in RenameChains :
        \E disk \in Disks(entries) :
            /\ AppState(flushEffects(Setup(entries, chain)))
            /\ flushIdx = 0
            /\ program = <<>>
            /\ lastOp = "init"
            /\ ran = <<>>
            /\ alloc = [rules |-> Len(chain), files |-> Len(entries),
                        lists |-> MaxLists, renames |-> 0]
            /\ adding = <<>>
            /\ inflight = <<>>
            /\ main = NoRequest("posix") @@ [disk |-> disk]
            /\ finished = <<>>
            /\ PureIdle

NextDisk ==
    \/ renameFilesReturn
    \/ renameFilesStart
    \/ renameFilesOnDisk
    \/ Flush

SpecDisk == InitDisk /\ [][NextDisk]_vars

(***************************************************************************)
(* C37: an operation whose destination already holds a file is reported    *)
(* failed and the file is not replaced, so the disk holds as many files    *)
(* after a batch as before it.                                             *)
(***************************************************************************)
\* the operations of the batch whose destination held another file when
\* fs.renameSync was called for them
RECURSIVE OntoExisting(_, _, _, _)
OntoExisting(platform, operations, k, disk) ==
    IF k > Len(operations) THEN {}
    ELSE OntoExisting(platform, operations, k + 1,
            renameCall(disk, HandleOperation(platform, operations[k], k,
                                             TRUE).calls).disk)
         \cup {i \in {k} :
                 \E call \in Range(HandleOperation(platform, operations[k], k,
                                                   TRUE).calls) :
                     call.to \in disk /\ call.from \in disk /\ call.to # call.from}

\* C37: in the step in which the main process handles a batch, each operation
\* whose destination held another file is reported failed and the disk does
\* not lose a file
C37_ExistingFileNotReplaced ==
    [][RunResumes =>
          /\ \A k \in OntoExisting(main.platform, Head(inflight).operations, 1,
                                   main.disk) : ~main'.results[k].success
          /\ Cardinality(main'.disk) >= Cardinality(main.disk)]_vars

\* the disk never loses a file in a batch none of whose destinations exists
C37_WithoutExisting ==
    [][(RunResumes /\ OntoExisting(main.platform, Head(inflight).operations, 1,
                                   main.disk) = {})
          => Cardinality(main'.disk) = Cardinality(main.disk)]_vars

(***************************************************************************)
(* C38: the entries addFiles creates for a folder are files of the folder. *)
(***************************************************************************)
\* the entry stands for the dropped folder itself
IsFolderEntry(f) ==
    /\ value[<<"name", f>>] = FolderItem.name
    /\ value[<<"path", f>>] \in {FolderItem.path, <<>>}

\* C38: no entry of the file list is the dropped folder itself, whatever the
\* requests to the main process answer
C38_FolderNeverAnEntry ==
    \A f \in Range(value[fileSignals].items) : ~IsFolderEntry(f)

(***************************************************************************)
(* The keyboard: the keydown listener of the document, with the element    *)
(* that has the focus when the key goes down.                              *)
(***************************************************************************)
\* the key events of a behaviour
MaxKeys == 3

Keys == {"Delete", "Backspace", "a"}

\* document.activeElement: an input of a rule, the body, an editable element
ActiveElements ==
    {[tagName |-> "INPUT", isContentEditable |-> FALSE],
     [tagName |-> "TEXTAREA", isContentEditable |-> FALSE],
     [tagName |-> "BODY", isContentEditable |-> FALSE],
     [tagName |-> "DIV", isContentEditable |-> TRUE]}

\* isInInput of the keydown listener
isInInput(activeElement) ==
    \/ activeElement.tagName = "INPUT"
    \/ activeElement.tagName = "TEXTAREA"
    \/ activeElement.isContentEditable

\* what the listener does to the signals for the event e
keydownOf(g, e) ==
    IF e.key = "Delete" \/ e.key = "Backspace"
    THEN LET NotSelected(f) == ~g.value[<<"selected", f>>]
         IN write(g, fileSignals,
                  NewArray(SelectSeq(g.value[fileSignals].items, NotSelected)))
    ELSE IF e.key = "a" /\ e.ctrlKey
         THEN IF ~isInInput(e.activeElement) /\ Len(g.value[fileSignals].items) > 0
              THEN SetSelectedFrom(g, g.value[fileSignals].items, 1, TRUE)
              ELSE g
         ELSE g

\* a key goes down: the listener runs, lastOp keeps the event and its number
keydown(e) ==
    /\ Stable
    /\ lastOp.timeStamp < MaxKeys
    /\ LET g == keydownOf(AppEngine, e)
       IN /\ value' = g.value
          /\ subscribers' = g.subscribers
          /\ effects' = g.effects
          /\ pendingEffects' = g.pendingEffects
          /\ isFlushing' = g.isFlushing
          /\ microtasks' = g.microtasks
          /\ runs' = g.runs
          /\ owed' = g.owed
          /\ turnWrites' = g.turnWrites
          /\ dom' = g.dom
    /\ lastOp' = [key |-> e.key, ctrlKey |-> e.ctrlKey,
                  activeElement |-> e.activeElement,
                  timeStamp |-> lastOp.timeStamp + 1]
    /\ UNCHANGED <<flushIdx, program, ran, pureVars>>
    /\ UNCHANGED <<alloc, adding, inflight, main, finished>>

KeyEvents == [key : Keys, ctrlKey : BOOLEAN, activeElement : ActiveElements]

\* no key has gone down yet
NoKey ==
    [key |-> "", ctrlKey |-> FALSE, timeStamp |-> 0,
     activeElement |-> [tagName |-> "BODY", isContentEditable |-> FALSE]]

InitKeys ==
    \E entries \in OverlapLists :
        /\ AppState(flushEffects(Setup(entries, OverlapChain)))
        /\ flushIdx = 0
        /\ program = <<>>
        /\ lastOp = NoKey
        /\ ran = <<>>
        /\ alloc = [rules |-> 1, files |-> Len(entries),
                    lists |-> MaxLists, renames |-> 0]
        /\ adding = <<>>
        /\ inflight = <<>>
        /\ main = NoRequest("posix")
        /\ finished = <<>>
        /\ PureIdle

NextKeys ==
    \/ \E e \in KeyEvents : keydown(e)
    \/ \E modifier \in Modifiers, index \in 0..(MaxFiles - 1) :
          handleFileRowClick(modifier, index)
    \/ deselectAllFiles
    \/ Flush

SpecKeys == InitKeys /\ [][NextKeys]_vars

(***************************************************************************)
(* C40: Delete and Backspace remove the selected files only when the focus *)
(* is not in a text input.                                                 *)
(***************************************************************************)
\* the listener runs in this step for a key that goes down while the focus
\* is in a text input
KeyInInput(keys) ==
    /\ lastOp'.timeStamp # lastOp.timeStamp
    /\ lastOp'.key \in keys
    /\ isInInput(lastOp'.activeElement)

\* C40: a Delete or Backspace key that goes down while the focus is in a
\* text input leaves the file list as it was
C40_DeleteNeedsFocusOutsideInput ==
    [][KeyInInput({"Delete", "Backspace"})
          => value'[fileSignals].items = value[fileSignals].items]_vars

\* the select-all shortcut with the focus in a text input selects nothing
C40_SelectAllNeedsFocusOutsideInput ==
    [][KeyInInput({"a"})
          => \A f \in Range(value[fileSignals].items) :
                value'[<<"selected", f>>] = value[<<"selected", f>>]]_vars

(***************************************************************************)
(* The effects of earlier file lists: the list is replaced by calls of     *)
(* addFiles, then a rule is edited or a row is clicked.                    *)
(***************************************************************************)
StaleSources == {<<PlainFile(<<"a">>)>>, <<PlainFile(<<"a">>), PlainFile(<<"c">>)>>}

NextStale ==
    \/ addRule
    \/ \E p \in 1..MaxRules, v \in AppSearches : SetRuleSearch(p, v)
    \/ /\ alloc.lists < MaxAdds
       /\ \E items \in StaleSources : addFilesStart(items, NoFailure(items))
    \/ addFilesDone(1)
    \/ \E index \in 0..(MaxFiles - 1) : handleFileRowClick("ctrl", index)
    \/ Flush

SpecStale == InitApp /\ [][NextStale]_vars

(***************************************************************************)
(* C39: the effects that one edit of a rule or one change of a selected    *)
(* flag makes run are effects of the current list and of the two tables.   *)
(***************************************************************************)
\* the effects of the two tables and of the rows of the current file list
CurrentEffects ==
    {ruleTableEffect, fileTableEffect}
        \cup UNION {{PreviewEffect(f), ErrorEffect(f), RowEffect(f)} :
                       f \in Range(value[fileSignals].items)}

\* a signal of a rule or the selected flag of a file is written in this step
EditStep ==
    \E s \in AppSignals :
        /\ s[1] \in RuleSignalNames \cup {"selected"}
        /\ value'[s] # value[s]

\* C39: the effects an edit of a rule parameter or a change of a selected
\* flag schedules are effects of the current list or of the tables, so that
\* they are at most three for each file of the list and two more
C39_EditRunsCurrentEffectsOnly ==
    [][EditStep =>
          /\ Range(pendingEffects') \subseteq CurrentEffects
          /\ Len(pendingEffects') <= 3 * Len(value[fileSignals].items) + 2]_vars

\* as long as the list was filled once only, an edit runs current effects only
C39_WithoutReplacement ==
    [][(EditStep /\ alloc.lists <= 1) =>
          Range(pendingEffects') \subseteq CurrentEffects]_vars

====
